---- MODULE Spec2Model ----
(***************************************************************************)
(* Model of the OCR mini service: the job orchestrator                     *)
(* (ImageRecognitionService), its HTTP boundary                            *)
(* (ImageRecognitionController), the TSV normalizer (parseTsvOutput,       *)
(* calculateBaseline, sortWordsInReadingOrder) and the overlap filter.     *)
(***************************************************************************)
EXTENDS Integers, Sequences, FiniteSets, TLC

(***************************************************************************)
(* Numbers.  A JavaScript number is modelled as an exact fraction n/d in   *)
(* lowest terms with d > 0.  d = 0 encodes the non-finite values a         *)
(* division by zero produces: 1/0 is Infinity, -1/0 is -Infinity and 0/0   *)
(* is NaN.                                                                 *)
(***************************************************************************)
Num(n, d) == [n |-> n, d |-> d]

NaN == Num(0, 0)

Sign(k) == IF k > 0 THEN 1 ELSE IF k < 0 THEN -1 ELSE 0

AbsInt(k) == IF k < 0 THEN -k ELSE k

RECURSIVE GCD(_, _)
GCD(a, b) == IF b = 0 THEN a ELSE GCD(b, a % b)

Norm(n, d) ==
    IF d = 0 THEN Num(Sign(n), 0)
    ELSE LET g == GCD(AbsInt(n), AbsInt(d))
             s == Sign(d)
         IN  Num((s * n) \div g, (s * d) \div g)

IsNaN(x) == x.d = 0 /\ x.n = 0

IsInf(x) == x.d = 0 /\ x.n # 0

IsFinite(x) == x.d # 0

\* a / b
Div(a, b) ==
    IF IsNaN(a) \/ IsNaN(b) \/ (IsInf(a) /\ IsInf(b)) THEN NaN
    ELSE IF IsInf(a) THEN Num(a.n * (IF b.n < 0 THEN -1 ELSE 1), 0)
    ELSE IF IsInf(b) THEN Num(0, 1)
    ELSE Norm(a.n * b.d, a.d * b.n)

\* a + b
Add(a, b) ==
    IF IsNaN(a) \/ IsNaN(b) THEN NaN
    ELSE IF IsInf(a) /\ IsInf(b) THEN (IF a.n = b.n THEN a ELSE NaN)
    ELSE IF IsInf(a) THEN a
    ELSE IF IsInf(b) THEN b
    ELSE Norm(a.n * b.d + b.n * a.d, a.d * b.d)

Neg(a) == Num(-a.n, a.d)

\* a - b
Sub(a, b) == Add(a, Neg(b))

\* a * b
Mul(a, b) ==
    IF IsNaN(a) \/ IsNaN(b) THEN NaN
    ELSE IF IsInf(a) \/ IsInf(b)
         THEN Num(Sign(a.n) * Sign(b.n), 0)
    ELSE Norm(a.n * b.n, a.d * b.d)

\* Math.abs
Abs(a) == Num(AbsInt(a.n), a.d)

\* a <= b  (false when either side is NaN)
Leq(a, b) ==
    IF IsNaN(a) \/ IsNaN(b) THEN FALSE
    ELSE IF IsInf(a) THEN (a.n < 0 \/ (IsInf(b) /\ b.n > 0))
    ELSE IF IsInf(b) THEN b.n > 0
    ELSE a.n * b.d <= b.n * a.d

\* a < b  (false when either side is NaN)
Less(a, b) == Leq(a, b) /\ a # b

\* parseInt of a numeric column: the column's decimal text is its value
parseInt(c) == Num(c, 1)

(***************************************************************************)
(* Text.  A string is a sequence of characters; an ASCII character is the  *)
(* one-character string, any other character is named by its code point    *)
(* ("U+00E7" is c with cedilla).                                           *)
(***************************************************************************)
Whitespace == {" ", "\t"}

RECURSIVE TrimStart(_)
TrimStart(s) ==
    IF s = <<>> THEN s
    ELSE IF Head(s) \in Whitespace THEN TrimStart(Tail(s)) ELSE s

RECURSIVE TrimEnd(_)
TrimEnd(s) ==
    IF s = <<>> THEN s
    ELSE IF s[Len(s)] \in Whitespace THEN TrimEnd(SubSeq(s, 1, Len(s) - 1)) ELSE s

\* String.prototype.trim
trim(s) == TrimEnd(TrimStart(s))

\* String.prototype.toLowerCase, on the characters the inputs use
toLowerCase(c) ==
    CASE c = "A" -> "a"
      [] c = "G" -> "g"
      [] c = "H" -> "h"
      [] c = "P" -> "p"
      [] c = "U+00C7" -> "U+00E7"
      [] c = "U+0218" -> "U+0219"
      [] c = "U+021A" -> "U+021B"
      [] OTHER -> c

DESCENDER_CHARS ==
    { "g", "j", "p", "q", "y",
      "U+00E7", "U+0123", "U+0137", "U+013C", "U+0105", "U+0119", "U+012F", "U+0173", "U+0219", "U+021B", "U+0218", "U+021A",
      "U+014B", "U+025F", "U+029D", "U+0261", "U+0263", "U+0284", "U+0237",
      ",", ";", "U+201A", "U+201E", "U+00BF",
      "(", ")", "[", "]", "{", "}",
      "U+222B", "U+222E", "U+2202", "U+0192", "U+208D", "U+208E",
      "U+20A4", "U+20BA", "U+20A5", "U+20B0" }

DESCENDER_FACTOR == Num(23, 100)

calculateBaseline(text, top, height) ==
    LET hasDescenders ==
            \E i \in 1..Len(text) : toLowerCase(text[i]) \in DESCENDER_CHARS
    IN  IF hasDescenders
        THEN Add(top, Mul(height, Sub(Num(1, 1), DESCENDER_FACTOR)))
        ELSE Add(top, height)

(***************************************************************************)
(* Identifiers.  nanoid() draws 8 characters out of 62 at random; the      *)
(* model names the k-th draw made on behalf of `seed` by the pair          *)
(* <<seed, k>>, so that distinct draws are distinct identifiers.           *)
(***************************************************************************)
nanoid(seed, k) == <<seed, k>>

(***************************************************************************)
(* The Result Normalizer.  A TSV line is the sequence of its tab-separated *)
(* columns: columns 1..11 are numbers, column 12 is the text.              *)
(***************************************************************************)
BASELINE_TOLERANCE == Num(25, 10000)

\* x[0] === '1': the first character of the line is the digit 1
FirstCharIsOne(line) == Len(line) >= 1 /\ line[1] = 1

\* dataLines.find((x) => x[0] === '1'): the index of the first such line, 0 if none
RECURSIVE FindPageLine(_, _)
FindPageLine(dataLines, i) ==
    IF i > Len(dataLines) THEN 0
    ELSE IF FirstCharIsOne(dataLines[i]) THEN i
    ELSE FindPageLine(dataLines, i + 1)

PageSize(l) ==
    IF Len(l) = 12
    THEN [width |-> parseInt(l[9]), height |-> parseInt(l[10])]
    ELSE [width |-> Num(0, 1), height |-> Num(0, 1)]

\* the word a level-5 line with non-blank text becomes
WordOfLine(columns, pageSize, wordId) ==
    LET left   == Div(parseInt(columns[7]), pageSize.width)
        top    == Div(parseInt(columns[8]), pageSize.height)
        width  == Div(parseInt(columns[9]), pageSize.width)
        height == Div(parseInt(columns[10]), pageSize.height)
        conf   == Div(parseInt(columns[11]), Num(100, 1))
        text   == trim(columns[12])
    IN  [ left |-> left, top |-> top, width |-> width, height |-> height,
          baseline |-> calculateBaseline(text, top, height),
          data |-> [id |-> wordId, text |-> text, confidence |-> conf] ]

\* the test of the loop body without the trim of the text column
IsWordLineUntrimmed(columns) ==
    /\ Len(columns) >= 12
    /\ columns[1] = 5
    /\ columns[12] # <<>>

\* the test of the loop body: 12 columns at least, level 5, non-blank text
IsWordLine(columns) ==
    /\ Len(columns) >= 12
    /\ columns[1] = 5
    /\ trim(columns[12]) # <<>>

RECURSIVE CollectWords(_, _, _, _)
CollectWords(dataLines, pageSize, seed, words) ==
    IF dataLines = <<>> THEN words
    ELSE LET columns == Head(dataLines)
         IN  IF IsWordLine(columns)
             THEN CollectWords(Tail(dataLines), pageSize, seed,
                      Append(words,
                             WordOfLine(columns, pageSize, nanoid(seed, Len(words) + 1))))
             ELSE CollectWords(Tail(dataLines), pageSize, seed, words)

\* the search as it would be if it compared against the last member of a group
RECURSIVE FindGroupByLastMember(_, _, _)
FindGroupByLastMember(lineGroups, wordBaseline, i) ==
    IF i > Len(lineGroups) THEN 0
    ELSE IF Leq(Abs(Sub(wordBaseline, lineGroups[i][Len(lineGroups[i])].baseline)),
                BASELINE_TOLERANCE)
         THEN i
         ELSE FindGroupByLastMember(lineGroups, wordBaseline, i + 1)

\* the index of the first line-group whose first member is within tolerance, 0 if none
RECURSIVE FindGroup(_, _, _)
FindGroup(lineGroups, wordBaseline, i) ==
    IF i > Len(lineGroups) THEN 0
    ELSE IF Leq(Abs(Sub(wordBaseline, lineGroups[i][1].baseline)), BASELINE_TOLERANCE)
         THEN i
         ELSE FindGroup(lineGroups, wordBaseline, i + 1)

RECURSIVE GroupWords(_, _)
GroupWords(words, lineGroups) ==
    IF words = <<>> THEN lineGroups
    ELSE LET word == Head(words)
             g    == FindGroup(lineGroups, word.baseline, 1)
         IN  IF g = 0
             THEN GroupWords(Tail(words), Append(lineGroups, <<word>>))
             ELSE GroupWords(Tail(words),
                             [lineGroups EXCEPT ![g] = Append(@, word)])

RECURSIVE SumBaseline(_)
SumBaseline(group) ==
    IF group = <<>> THEN Num(0, 1)
    ELSE Add(SumBaseline(SubSeq(group, 1, Len(group) - 1)), group[Len(group)].baseline)

AvgBaseline(group) == Div(SumBaseline(group), Num(Len(group), 1))

\* Array.prototype.sort with the comparator (a, b) => key(a) - key(b): stable,
\* and a comparison that yields NaN counts as 0
RECURSIVE InsertByKey(_, _)
InsertByKey(p, s) ==
    IF s = <<>> THEN <<p>>
    ELSE IF Less(p.key, Head(s).key) THEN <<p>> \o s
    ELSE <<Head(s)>> \o InsertByKey(p, Tail(s))

RECURSIVE SortByKey(_)
SortByKey(s) ==
    IF s = <<>> THEN <<>>
    ELSE InsertByKey(s[Len(s)], SortByKey(SubSeq(s, 1, Len(s) - 1)))

Unkey(s) == [i \in 1..Len(s) |-> s[i].val]

SortGroupsByBaseline(lineGroups) ==
    Unkey(SortByKey([i \in 1..Len(lineGroups) |->
                        [key |-> AvgBaseline(lineGroups[i]), val |-> lineGroups[i]]]))

\* a group left in the order its words were reported in
SortGroupByLeftSkipped(group) == group

\* a group ordered by the random ids of its words: the draws of one call put
\* them in the reported order, those of the next call in the reverse order
SortGroupByWordId(group) ==
    IF group[1].data.id[1] % 2 = 1 THEN group
    ELSE [i \in 1..Len(group) |-> group[Len(group) + 1 - i]]

SortGroupByLeft(group) ==
    Unkey(SortByKey([i \in 1..Len(group) |->
                        [key |-> group[i].left, val |-> group[i]]]))

RECURSIVE Flat(_)
Flat(groups) ==
    IF groups = <<>> THEN <<>> ELSE Head(groups) \o Flat(Tail(groups))

LineGroupsOf(words) ==
    LET sorted == SortGroupsByBaseline(GroupWords(words, <<>>))
    IN  [i \in 1..Len(sorted) |-> SortGroupByLeft(sorted[i])]

sortWordsInReadingOrder(words) ==
    IF Len(words) = 0 THEN words ELSE Flat(LineGroupsOf(words))

\* A settled promise: fulfilled with `value`, or rejected with `message`
Fulfilled(v) == [threw |-> FALSE, value |-> v, message |-> ""]

Rejected(m) == [threw |-> TRUE, value |-> <<>>, message |-> m]

\* parseTsvOutput: without a level-1 line, find() yields undefined and .split
\* raises; the catch block then reads this.logger of an undefined `this` and
\* raises in turn, so that the promise is rejected with that TypeError.
parseTsvOutput(tsvContent, seed) ==
    LET dataLines == Tail(tsvContent)
        p         == FindPageLine(dataLines, 1)
    IN  IF p = 0
        THEN Rejected("Cannot read properties of undefined (reading 'logger')")
        ELSE Fulfilled(sortWordsInReadingOrder(
                 CollectWords(dataLines, PageSize(dataLines[p]), seed, <<>>)))

(***************************************************************************)
(* The Recognition adapter (TesseractService).  A run of the engine is     *)
(* described by whether the process started, its exit code and the TSV     *)
(* file it left behind.                                                    *)
(***************************************************************************)
TsvHeader ==
    << "level", "page_num", "block_num", "par_num", "line_num", "word_num",
       "left", "top", "width", "height", "conf", "text" >>

PageRow(w, h) == << 1, 1, 0, 0, 0, 0, 0, 0, w, h, -1, <<>> >>

WordRow(l, t, w, h, conf, text) == << 5, 1, 1, 1, 1, 1, l, t, w, h, conf, text >>

\* the TSV files the engine is taken to produce (lines after trim().split('\n'))
TsvNames == {"empty", "headerOnly", "noPage", "hello", "mixed"}

TsvFile(name) ==
    CASE name = "empty" ->
           [size |-> 0, lines |-> << <<>> >>]
      [] name = "headerOnly" ->
           [size |-> 1, lines |-> << TsvHeader >>]
      [] name = "noPage" ->
           [size |-> 1, lines |->
              << TsvHeader,
                 WordRow(100, 50, 80, 20, 96, <<"H", "e", "l", "l", "o">>) >>]
      [] name = "hello" ->
           [size |-> 1, lines |->
              << TsvHeader,
                 PageRow(1000, 1000),
                 << 2, 1, 1, 0, 0, 0, 100, 50, 80, 20, -1, <<>> >>,
                 << 3, 1, 1, 1, 0, 0, 100, 50, 80, 20, -1, <<>> >>,
                 << 4, 1, 1, 1, 1, 0, 100, 50, 80, 20, -1, <<>> >>,
                 WordRow(100, 50, 80, 20, 96, <<"H", "e", "l", "l", "o">>) >>]
      [] name = "mixed" ->
           [size |-> 1, lines |->
              << TsvHeader,
                 PageRow(1000, 1000),
                 WordRow(300, 100, 80, 100, 90, <<"b", "i", "g">>),
                 WordRow(100, 77, 80, 100, 80, <<" ", "H", "i">>),
                 WordRow(500, 77, 80, 100, 70, <<" ", " ">>),
                 << 5, 1, 1, 1, 1, 4, 600, 77, 80 >>,
                 WordRow(50, 10, 40, 20, 60, <<"o", "n">>) >>]

\* every run of the engine the model describes
AllTesseractRuns ==
    { [start |-> "error", code |-> 0, tsv |-> "missing"],
      [start |-> "ok", code |-> 1, tsv |-> "missing"],
      [start |-> "ok", code |-> 1, tsv |-> "hello"],
      [start |-> "ok", code |-> 0, tsv |-> "missing"] }
    \cup { [start |-> "ok", code |-> 0, tsv |-> t] : t \in TsvNames }

\* the runs a job's task is taken to see: a fatal exit, a TSV file without page
\* line, an empty TSV file, a TSV file with words
TesseractRuns ==
    { [start |-> "ok", code |-> 1, tsv |-> "missing"],
      [start |-> "ok", code |-> 0, tsv |-> "noPage"],
      [start |-> "ok", code |-> 0, tsv |-> "empty"],
      [start |-> "ok", code |-> 0, tsv |-> "mixed"] }

\* _runTesseract: rejects when the process cannot start or exits non-zero
_runTesseract(run) ==
    IF run.start = "error" THEN Rejected("Failed to start Tesseract process")
    ELSE IF run.code = 0 THEN Fulfilled(<<>>)
    ELSE Rejected("Tesseract failed with exit code")

\* _parseTsvOutput as it would be without the test of the number of lines
ParseTsvOutputWithoutLineCount(tsv, seed) ==
    IF tsv = "missing" THEN Rejected("Failed to parse OCR results: ENOENT")
    ELSE IF TsvFile(tsv).size = 0 THEN Fulfilled(<<>>)
    ELSE parseTsvOutput(TsvFile(tsv).lines, seed)

\* _parseTsvOutput: `return parseTsvOutput(lines)` is not awaited, so a
\* rejection of parseTsvOutput passes the catch block by
_parseTsvOutput(tsv, seed) ==
    IF tsv = "missing" THEN Rejected("Failed to parse OCR results: ENOENT")
    ELSE IF TsvFile(tsv).size = 0 THEN Fulfilled(<<>>)
    ELSE IF Len(TsvFile(tsv).lines) < 2 THEN Fulfilled(<<>>)
    ELSE parseTsvOutput(TsvFile(tsv).lines, seed)

\* TesseractService.processImage
TesseractProcessImage(run, seed) ==
    IF _runTesseract(run).threw THEN _runTesseract(run)
    ELSE _parseTsvOutput(run.tsv, seed)

(***************************************************************************)
(* The Code Detection adapter (CodeReaderService).                         *)
(***************************************************************************)
RECURSIVE MinOf(_)
MinOf(s) ==
    IF s = <<>> THEN Num(1, 0)
    ELSE LET m == MinOf(Tail(s)) IN IF Leq(Head(s), m) THEN Head(s) ELSE m

RECURSIVE MaxOf(_)
MaxOf(s) ==
    IF s = <<>> THEN Num(-1, 0)
    ELSE LET m == MaxOf(Tail(s)) IN IF Leq(m, Head(s)) THEN Head(s) ELSE m

\* the scans the decoder is taken to produce: image size and decoded symbols
ScanNames == {"fail", "none", "qr"}

ScanOf(name) ==
    CASE name = "fail" -> [ok |-> FALSE, width |-> 0, height |-> 0, symbols |-> <<>>]
      [] name = "none" -> [ok |-> TRUE, width |-> 1000, height |-> 1000, symbols |-> <<>>]
      [] name = "qr" ->
           [ok |-> TRUE, width |-> 1000, height |-> 1000,
            symbols |->
              << [points |-> << [x |-> 250, y |-> 50], [x |-> 450, y |-> 50],
                                [x |-> 450, y |-> 250], [x |-> 250, y |-> 250] >>,
                  data |-> "4006381333931", typeName |-> "ZBAR_QRCODE"] >>]

\* String.prototype.toUpperCase on the decoder's type names
toUpperCase(t) == CASE t = "zbar_qrcode" -> "ZBAR_QRCODE" [] OTHER -> t

CodeOfSymbol(symbol, imageWidth, imageHeight, codeId) ==
    LET xs == [i \in 1..Len(symbol.points) |-> Num(symbol.points[i].x, 1)]
        ys == [i \in 1..Len(symbol.points) |-> Num(symbol.points[i].y, 1)]
    IN  [ left   |-> Div(MinOf(xs), Num(imageWidth, 1)),
          top    |-> Div(MinOf(ys), Num(imageHeight, 1)),
          width  |-> Div(Sub(MaxOf(xs), MinOf(xs)), Num(imageWidth, 1)),
          height |-> Div(Sub(MaxOf(ys), MinOf(ys)), Num(imageHeight, 1)),
          data   |-> [id |-> codeId, content |-> symbol.data,
                      type |-> toUpperCase(symbol.typeName)] ]

\* CodeReaderService.processImage
CodeReaderProcessImage(scan, seed) ==
    IF ~ScanOf(scan).ok
    THEN Rejected("Code scanning and normalization failed")
    ELSE Fulfilled([i \in 1..Len(ScanOf(scan).symbols) |->
                       CodeOfSymbol(ScanOf(scan).symbols[i], ScanOf(scan).width,
                                    ScanOf(scan).height, nanoid(seed, 100 + i))])

(***************************************************************************)
(* The Overlap Resolver.                                                   *)
(***************************************************************************)
\* the test with < in place of <=: rectangles that only touch overlap
RectanglesOverlapOrTouch(rect1, rect2) ==
    LET rect1Right  == Add(rect1.left, rect1.width)
        rect1Bottom == Add(rect1.top, rect1.height)
        rect2Right  == Add(rect2.left, rect2.width)
        rect2Bottom == Add(rect2.top, rect2.height)
        noOverlap   == \/ Less(rect1Right, rect2.left)
                       \/ Less(rect2Right, rect1.left)
                       \/ Less(rect1Bottom, rect2.top)
                       \/ Less(rect2Bottom, rect1.top)
    IN  ~noOverlap

_rectanglesOverlap(rect1, rect2) ==
    LET rect1Right  == Add(rect1.left, rect1.width)
        rect1Bottom == Add(rect1.top, rect1.height)
        rect2Right  == Add(rect2.left, rect2.width)
        rect2Bottom == Add(rect2.top, rect2.height)
        noOverlap   == \/ Leq(rect1Right, rect2.left)
                       \/ Leq(rect2Right, rect1.left)
                       \/ Leq(rect1Bottom, rect2.top)
                       \/ Leq(rect2Bottom, rect1.top)
    IN  ~noOverlap

\* the filter as it would be if it collected the kept words in reverse
RECURSIVE FilterWordsReversed(_, _)
FilterWordsReversed(textResults, codes) ==
    IF textResults = <<>> THEN <<>>
    ELSE LET textResult == Head(textResults)
             overlapsWithCode ==
                 \E i \in 1..Len(codes) : _rectanglesOverlap(textResult, codes[i])
         IN  IF overlapsWithCode THEN FilterWordsReversed(Tail(textResults), codes)
             ELSE FilterWordsReversed(Tail(textResults), codes) \o <<textResult>>

RECURSIVE FilterWords(_, _)
FilterWords(textResults, codes) ==
    IF textResults = <<>> THEN <<>>
    ELSE LET textResult == Head(textResults)
             overlapsWithCode ==
                 \E i \in 1..Len(codes) : _rectanglesOverlap(textResult, codes[i])
         IN  IF overlapsWithCode THEN FilterWords(Tail(textResults), codes)
             ELSE <<textResult>> \o FilterWords(Tail(textResults), codes)

_filterOverlappingText(textResults, codes) ==
    IF Len(codes) = 0 THEN textResults ELSE FilterWords(textResults, codes)

(***************************************************************************)
(* The Job Orchestrator (ImageRecognitionService) and its HTTP boundary    *)
(* (ImageRecognitionController).                                           *)
(***************************************************************************)
MaxJobs == 2

VARIABLES
    _processing,      \* the busy flag
    _jobStatuses,     \* job id -> JobStatus record
    _progressStreams, \* job id -> Subject of the push channel
    tasks,            \* job id -> the job's background task (_processImageAsync)
    tempFiles,        \* job ids whose temp file input_<jobId>.png exists
    posts,            \* job id -> the webhook POSTs issued for the job, in order
    nanoidCalls,      \* how many job ids startImageRecognitionOnBuffer has drawn
    call,             \* the last call of the normalizer or of the overlap resolver
                      \* made on its own: its number, its arguments and its result
    request,          \* the submission the last step handled and its response, if
                      \* the last step was a call of the controller
    handlers          \* request number -> the invocation of the handler of POST
                      \* /ocr/process for it, followed statement by statement

vars == << _processing, _jobStatuses, _progressStreams, tasks, tempFiles, posts,
           nanoidCalls, call,
           request, handlers >>

JobIds == 1..MaxJobs

\* the ids a caller asks for: the ids of jobs, and two ids no submission returns
AskedIds == 0..(MaxJobs + 1)

Undefined == "undefined"

\* an absent result (JobStatus.result, the result of an error event or payload)
UndefinedResult == [undefined |-> TRUE]

\* file.size > 10 * 1024 * 1024
MaxFileSize == 10 * 1024 * 1024

\* The images a caller submits: absent, or a payload of some type and size
NoImage == [present |-> FALSE, type |-> "", size |-> 0]

Images ==
    { NoImage,
      [present |-> TRUE, type |-> "image", size |-> 0],
      [present |-> TRUE, type |-> "image", size |-> 2048],
      [present |-> TRUE, type |-> "image", size |-> MaxFileSize + 1],
      [present |-> TRUE, type |-> "text", size |-> 2048] }

\* The strategy tags a caller sends; Undefined is a missing tag
StrategyTags == {"sse", "webhook", "polling", Undefined, "email"}

\* The webhook targets a caller sends with the webhook strategy ("" is none)
WebhookUrls == {"", "http://client/hook"}

WebhookPaths == {"", "/hook"}

ValidStrategies == {"sse", "webhook", "polling"}

\* The outcomes of the temp-file write, of the webhook POST and of the unlink
WriteOutcomes == {"ok", "failed"}

WebhookResponses == {"ok", "non2xx", "networkError"}

\* fs.unlink removes the file ("ok"), or fails with an error other than ENOENT and
\* leaves it ("EPERM"); on a missing file it fails with ENOENT
UnlinkOutcomes == {"ok", "EPERM"}

\* JSON.stringify of a number: NaN and the infinities become null
JsonNull == [null |-> TRUE]

JsonNumber(x) == IF IsFinite(x) THEN x ELSE JsonNull

JsonRect(r, data) ==
    [ left |-> JsonNumber(r.left), top |-> JsonNumber(r.top),
      width |-> JsonNumber(r.width), height |-> JsonNumber(r.height),
      data |-> data ]

JsonWord(w) ==
    [ base |-> JsonRect(w, [id |-> w.data.id, text |-> w.data.text,
                           confidence |-> JsonNumber(w.data.confidence)]),
      baseline |-> JsonNumber(w.baseline) ]

JsonResult(result) ==
    IF result = UndefinedResult THEN UndefinedResult
    ELSE [ words |-> [i \in 1..Len(result.words) |-> JsonWord(result.words[i])],
           codes |-> [i \in 1..Len(result.codes) |->
                         JsonRect(result.codes[i], result.codes[i].data)] ]

\* new Date(): an instant is named by the job and the statement that read the clock
Instant(j, statement) == [job |-> j, at |-> statement]

\* A Subject: the notifications its observers were sent, and whether it is stopped
NewSubject == [log |-> <<>>, isStopped |-> FALSE, observers |-> <<>>]

\* what the subscriptions to a subject have received, after one more notification
Notified(observers, event) ==
    [ i \in DOMAIN observers |->
        [ observers[i] EXCEPT !.received = Append(@, event) ] ]

\* Subject.next: handed to every observer, dropped once the subject is stopped
SubjectNext(subject, event) ==
    IF subject.isStopped THEN subject
    ELSE [subject EXCEPT !.log = Append(@, event),
                         !.observers = Notified(@, event)]

\* Subject.complete
SubjectComplete(subject) ==
    IF subject.isStopped THEN subject
    ELSE [log |-> Append(subject.log, [type |-> "close"]), isStopped |-> TRUE,
          observers |-> Notified(subject.observers, [type |-> "close"])]

\* subscribe as it would be on a ReplaySubject: the events of the past are
\* handed to the new observer
SubscribeToReplaying(subject) ==
    [subject EXCEPT !.observers =
        Append(@, [subscribedAt |-> Len(subject.log), received |-> subject.log])]

\* subscribe() on the observable of a Subject: a new observer of a stopped
\* subject is completed at once, any other receives what follows
SubscribeTo(subject) ==
    [subject EXCEPT !.observers =
        Append(@, [ subscribedAt |-> Len(subject.log),
                    received |-> IF subject.isStopped THEN << [type |-> "close"] >>
                                 ELSE <<>> ])]

\* _sendSse as it would be if the event were built but never handed to the subject
SendSseDropped(subject, data) == subject

\* _sendSse
_sendSse(subject, data) == SubjectNext(subject, data)

NoCall == [fn |-> "none", seed |-> 0, input |-> <<>>, result |-> <<>>]

NoRequest ==
    [ endpoint |-> "none", image |-> NoImage, returnStrategy |-> Undefined,
      webhookUrl |-> "", busy |-> FALSE, response |-> "none", jobId |-> 0 ]

Init ==
    /\ _processing = FALSE
    /\ _jobStatuses = << >>
    /\ _progressStreams = << >>
    /\ tasks = << >>
    /\ tempFiles = {}
    /\ posts = << >>
    /\ nanoidCalls = 0
    /\ call = NoCall
    /\ request = NoRequest
    /\ handlers = << >>

\* isProcessing()
isProcessing == _processing

\* NotFoundException(`Job ${jobId} not found`)
NotFound == [notFound |-> TRUE]

\* getJobStatus as it would be if it looked the id up in the channel registry
GetJobStatusOfChannel(jobId) ==
    IF jobId \in DOMAIN _progressStreams THEN _jobStatuses[jobId] ELSE NotFound

\* getJobStatus
getJobStatus(jobId) ==
    IF jobId \in DOMAIN _jobStatuses THEN _jobStatuses[jobId] ELSE NotFound

\* getProgressStream as it would be if every job had a channel
GetProgressStreamOfAnyJob(jobId) ==
    IF jobId \in DOMAIN _progressStreams THEN _progressStreams[jobId]
    ELSE IF jobId \in DOMAIN _jobStatuses THEN NewSubject
    ELSE NotFound

\* getProgressStream
getProgressStream(jobId) ==
    IF jobId \in DOMAIN _progressStreams THEN _progressStreams[jobId] ELSE NotFound

\* The options a caller sends; the webhook target is only read for the webhook
\* strategy.  POST /ocr/process is sent the target itself, POST /ocr/process-buffer
\* a path the controller prefixes with the caller's address.
Options(urls) ==
    { o \in [returnStrategy : StrategyTags, webhookUrl : urls] :
        o.returnStrategy = "webhook" \/ o.webhookUrl = "" }

DefaultOptions == [returnStrategy |-> "sse", webhookUrl |-> ""]

ValidImage == [present |-> TRUE, type |-> "image", size |-> 2048]

\* The submissions a caller makes through an endpoint: the valid image with every
\* choice of options, every other image with the default options
Submissions(urls) ==
    { [image |-> ValidImage, options |-> o] : o \in Options(urls) }
    \cup { [image |-> i, options |-> DefaultOptions] : i \in Images }

\* The parameter returnStrategy as it would be without a default value
NoDefaultStrategy(returnStrategy) == returnStrategy

\* The default value of the parameter returnStrategy
DefaultStrategy(returnStrategy) ==
    IF returnStrategy = Undefined THEN "sse" ELSE returnStrategy

\* A task: its position, its parameters and locals, and what the adapters and the
\* webhook target answered it.  A task that has ended holds nothing any more.
NoRun == [start |-> "none", code |-> 0, tsv |-> "none"]

EndedTask ==
    [ pc |-> "done", returnStrategy |-> Undefined, webhookUrl |-> "",
      progressSubject |-> FALSE,
      textSettled |-> FALSE, textRun |-> NoRun, text |-> Fulfilled(<<>>),
      codeSettled |-> FALSE, codeRun |-> "none", codes |-> Fulfilled(<<>>),
      handler |-> "none", webhookResponse |-> "none", unlink |-> "none" ]

\* startImageRecognitionOnBuffer, up to the first suspension of the task it starts:
\* the record, the push channel, the busy flag, and the task waiting for the write
startImageRecognitionOnBuffer(jobId, strategyTag, webhookUrl) ==
    LET returnStrategy == DefaultStrategy(strategyTag)
        jobStatus == [ jobId |-> jobId, status |-> "processing", createdAt |-> Instant(jobId, "created"),
                       result |-> UndefinedResult, error |-> Undefined,
                       completedAt |-> Undefined ]
    IN  /\ nanoidCalls' = nanoidCalls + 1
        /\ _jobStatuses' = (jobId :> jobStatus) @@ _jobStatuses
        /\ _progressStreams' =
              IF returnStrategy = "sse"
              THEN (jobId :> NewSubject) @@ _progressStreams
              ELSE _progressStreams
        /\ _processing' = TRUE
        /\ tasks' = (jobId :>
              [ EndedTask EXCEPT !.pc = "write", !.returnStrategy = returnStrategy,
                                 !.webhookUrl = webhookUrl,
                                 !.progressSubject = (returnStrategy = "sse") ]) @@ tasks
        /\ posts' = posts @@ (jobId :> <<>>)
        /\ UNCHANGED tempFiles

\* nanoid() of startImageRecognitionOnBuffer, taken to return an id never returned
\* before: the number of the call
NextJobId == nanoidCalls + 1

\* nanoid() of startImageRecognitionOnBuffer, as the random choice it is: any id,
\* an id returned before included (here: one whose earlier task has ended)
NanoidDraws ==
    LET ids == { id \in JobIds : id \notin DOMAIN tasks \/ tasks[id].pc = "done" }
    IN  IF ids = {} THEN {NextJobId} ELSE ids

\* The checks of ImageRecognitionController.processImage, in the order of the code
ProcessImageResponse(file, strategyTag, webhookUrl) ==
    IF ~file.present THEN "BadRequest"
    ELSE IF file.type # "image" THEN "BadRequest"
    ELSE IF file.size > MaxFileSize THEN "BadRequest"
    ELSE IF isProcessing THEN "ServiceUnavailable"
    ELSE IF strategyTag \notin ValidStrategies THEN "BadRequest"
    ELSE IF strategyTag = "webhook" /\ webhookUrl = "" THEN "BadRequest"
    ELSE "Accepted"

\* The checks of ImageRecognitionController.processBuffer: Buffer.from raises on a
\* missing image; nothing else is checked
ProcessBufferResponse(image, strategyTag, webhookUrl) ==
    IF ~image.present THEN "InternalError" ELSE "Accepted"

\* fullWebhookUrl of processBuffer
FullWebhookUrl(webhookUrl) ==
    IF webhookUrl # "" THEN "http://client" \o webhookUrl ELSE ""

\* A call of the controller: of an accepted submission the observation keeps the
\* inputs, of a rejected one the endpoint and the response
Handle(endpoint, image, options, response, webhookUrl, jobId) ==
    IF response = "Accepted"
    THEN /\ NextJobId \in JobIds
         /\ UNCHANGED << call, handlers >>
         /\ request' = [ endpoint |-> endpoint, image |-> image,
                         returnStrategy |-> options.returnStrategy,
                         webhookUrl |-> options.webhookUrl, busy |-> _processing,
                         response |-> response, jobId |-> jobId ]
         /\ startImageRecognitionOnBuffer(jobId, options.returnStrategy, webhookUrl)
    ELSE /\ request' = [ NoRequest EXCEPT !.endpoint = endpoint, !.busy = _processing,
                                          !.response = response ]
         /\ UNCHANGED << _processing, _jobStatuses, _progressStreams, tasks,
                         tempFiles, posts, nanoidCalls, call, handlers >>

\* POST /ocr/process, jobId being what nanoid() returns if the submission is accepted
processImage(file, options, jobId) ==
    Handle("process", file, options,
           ProcessImageResponse(file, options.returnStrategy, options.webhookUrl),
           options.webhookUrl, jobId)

\* POST /ocr/process-buffer
processBuffer(image, options, jobId) ==
    Handle("process-buffer", image, options,
           ProcessBufferResponse(image, options.returnStrategy, options.webhookUrl),
           FullWebhookUrl(options.webhookUrl), jobId)

(***************************************************************************)
(* The background task _processImageAsync.  A step runs from one           *)
(* suspension of the task on an I/O operation (the temp-file write, the    *)
(* adapters, the webhook POST, the unlink) to the next.                    *)
(***************************************************************************)
\* the Recognition adapter's promise as it would be without its .catch
CatchOcrRethrows(p) == p

\* .catch of the Recognition adapter's promise: CONTINUE EVEN IF OCR FAILS
CatchOcr(p) == IF p.threw THEN Fulfilled(<<>>) ELSE p

\* the Code Detection adapter's promise as it would be without its .catch
CatchZBarRethrows(p) == p

\* .catch of the Code Detection adapter's promise: CONTINUE EVEN IF ZBAR FAILS
CatchZBar(p) == IF p.threw THEN Fulfilled(<<>>) ELSE p

\* _sendWebhook as it would be if it raised on an answer that is not ok
WebhookRaisesOnErrorStatus(response) == response = "non2xx"

\* _sendWebhook as it would be without its try/catch: the rejection of fetch escapes
WebhookRaisesOnNetworkError(response) == response = "networkError"

\* _sendWebhook as it would be if it threw on !response.ok and caught nothing
WebhookRaisesOnFailure(response) == response # "ok"

\* _sendWebhook: whether the call raises for this answer of the target; a non-2xx
\* response is logged, a network error is caught and logged
SendWebhookRaises(response) == FALSE

\* error.message || 'OCR processing failed'
ErrorMessage(message) == IF message = "" THEN "OCR processing failed" ELSE message

\* UPDATE JOB STATUS of the try block as it would be without the status
SetResultOnly(jobStatus, result, now) ==
    [jobStatus EXCEPT !.result = result, !.completedAt = now]

\* UPDATE JOB STATUS of the try block
SetCompleted(jobStatus, result, now) ==
    [jobStatus EXCEPT !.status = "completed", !.result = result, !.completedAt = now]

\* UPDATE JOB STATUS of the catch block as it would be without the error message
SetFailedWithoutError(jobStatus, message, now) ==
    [jobStatus EXCEPT !.status = "failed", !.completedAt = now]

\* UPDATE JOB STATUS of the catch block
SetFailed(jobStatus, message, now) ==
    [jobStatus EXCEPT !.status = "failed", !.error = ErrorMessage(message),
                      !.completedAt = now]

\* the finally block as it would be with the release of the flag inside
\* if (progressSubject)
FinallyOfPushJobsOnly(j, tasks1, streams1) ==
    /\ _processing' = IF tasks[j].progressSubject THEN FALSE ELSE _processing
    /\ _progressStreams' =
          IF tasks[j].progressSubject
          THEN [streams1 EXCEPT ![j] = SubjectComplete(@)]
          ELSE streams1
    /\ tasks' = [tasks1 EXCEPT ![j].pc = "unlink"]

\* the finally block up to the unlink: release the flag, complete the subject
Finally(j, tasks1, streams1) ==
    /\ _processing' = FALSE
    /\ _progressStreams' =
          IF tasks[j].progressSubject
          THEN [streams1 EXCEPT ![j] = SubjectComplete(@)]
          ELSE streams1
    /\ tasks' = [tasks1 EXCEPT ![j].pc = "unlink"]

\* the webhook POST: its target `${webhookUrl}/${jobId}` and the body it carries
WebhookPayload(j, status, result, error, now) ==
    [ url |-> << tasks[j].webhookUrl, "/", j >>, jobId |-> j, status |-> status,
      result |-> JsonResult(result), error |-> error, timestamp |-> now ]

\* _handleCompletion / _handleError, and what follows: the task either suspends on
\* the webhook POST or runs on into the finally block
HandleDelivery(j, handler, result, error, tasks1) ==
    LET t == tasks[j]
        event == [ type |-> IF handler = "completion" THEN "complete" ELSE "error",
                   result |-> JsonResult(result), error |-> error ]
        status == IF handler = "completion" THEN "completed" ELSE "failed"
    IN  CASE t.returnStrategy = "sse" /\ t.progressSubject ->
               /\ Finally(j, tasks1, [_progressStreams EXCEPT ![j] = _sendSse(@, event)])
               /\ posts' = posts
          [] t.returnStrategy = "webhook" /\ t.webhookUrl # "" ->
               /\ posts' = [posts EXCEPT
                              ![j] = Append(@, WebhookPayload(j, status, result, error,
                                                            Instant(j, handler)))]
               /\ tasks' = [tasks1 EXCEPT ![j].pc = "webhook", ![j].handler = handler]
               /\ UNCHANGED << _processing, _progressStreams >>
          [] OTHER ->
               /\ Finally(j, tasks1, _progressStreams)
               /\ posts' = posts

\* the end of the try block: the record becomes completed, then delivery
Complete(j, result, tasks1) ==
    /\ _jobStatuses' = [_jobStatuses EXCEPT ![j] = SetCompleted(@, result, Instant(j, "completed"))]
    /\ HandleDelivery(j, "completion", result, Undefined, tasks1)

\* the catch block as it would be if it marked every record still processing
FailEveryProcessing(j, message, tasks1) ==
    /\ _jobStatuses' =
          [ k \in DOMAIN _jobStatuses |->
              IF k = j \/ _jobStatuses[k].status = "processing"
              THEN SetFailed(_jobStatuses[k], message, Instant(j, "failed"))
              ELSE _jobStatuses[k] ]
    /\ HandleDelivery(j, "error", UndefinedResult, ErrorMessage(message), tasks1)

\* the catch block: the record becomes failed, then delivery
Fail(j, message, tasks1) ==
    /\ _jobStatuses' = [_jobStatuses EXCEPT ![j] = SetFailed(@, message, Instant(j, "failed"))]
    /\ HandleDelivery(j, "error", UndefinedResult, ErrorMessage(message), tasks1)

\* the write as it would be if _writeBufferToTempFile logged its error and returned
WriteSettleSwallowed(j, outcome) ==
    /\ j \in DOMAIN tasks
    /\ tasks[j].pc = "write"
    /\ tempFiles' = IF outcome = "ok" THEN tempFiles \cup {j} ELSE tempFiles
    /\ tasks' = [tasks EXCEPT ![j].pc = "adapters"]
    /\ UNCHANGED << _processing, _jobStatuses, _progressStreams, posts >>
    /\ request' = NoRequest
    /\ UNCHANGED << nanoidCalls, call, handlers >>

\* await this._writeBufferToTempFile(buffer, inputPath) settles
WriteSettle(j, outcome) ==
    /\ j \in DOMAIN tasks
    /\ tasks[j].pc = "write"
    /\ tempFiles' = IF outcome = "ok" THEN tempFiles \cup {j} ELSE tempFiles
    /\ IF outcome = "ok"
       THEN /\ tasks' = [tasks EXCEPT ![j].pc = "adapters"]
            /\ UNCHANGED << _processing, _jobStatuses, _progressStreams, posts >>
       ELSE Fail(j, "Cannot write to temp directory", tasks)
    /\ request' = NoRequest
    /\ UNCHANGED << nanoidCalls, call, handlers >>

\* this.tesseractService.processImage(inputPath).catch(...) settles
TextSettle(j, run) ==
    /\ j \in DOMAIN tasks
    /\ tasks[j].pc = "adapters"
    /\ ~tasks[j].textSettled
    /\ tasks' = [tasks EXCEPT ![j].textSettled = TRUE, ![j].textRun = run,
                              ![j].text = CatchOcr(TesseractProcessImage(run, j))]
    /\ UNCHANGED << _processing, _jobStatuses, _progressStreams, tempFiles, posts >>
    /\ request' = NoRequest
    /\ UNCHANGED << nanoidCalls, call, handlers >>

\* this.codeReaderService.processImage(inputPath).catch(...) settles
CodeSettle(j, scan) ==
    /\ j \in DOMAIN tasks
    /\ tasks[j].pc = "adapters"
    /\ ~tasks[j].codeSettled
    /\ tasks' = [tasks EXCEPT ![j].codeSettled = TRUE, ![j].codeRun = scan,
                              ![j].codes = CatchZBar(CodeReaderProcessImage(scan, j))]
    /\ UNCHANGED << _processing, _jobStatuses, _progressStreams, tempFiles, posts >>
    /\ request' = NoRequest
    /\ UNCHANGED << nanoidCalls, call, handlers >>

\* await Promise.all([...]) settles: fulfilled once both promises are, rejected as
\* soon as one is; then the rest of the try block, or the catch block
Join(j) ==
    /\ j \in DOMAIN tasks
    /\ tasks[j].pc = "adapters"
    /\ LET t == tasks[j]
           textThrew == t.textSettled /\ t.text.threw
           codeThrew == t.codeSettled /\ t.codes.threw
       IN  /\ (t.textSettled /\ t.codeSettled) \/ textThrew \/ codeThrew
           /\ IF textThrew THEN Fail(j, t.text.message, tasks)
              ELSE IF codeThrew THEN Fail(j, t.codes.message, tasks)
              ELSE Complete(j, [ words |-> _filterOverlappingText(t.text.value, t.codes.value),
                                 codes |-> t.codes.value ], tasks)
    /\ UNCHANGED tempFiles
    /\ request' = NoRequest
    /\ UNCHANGED << nanoidCalls, call, handlers >>

\* await fetch(...) of _sendWebhook settles
WebhookSettle(j, response) ==
    /\ j \in DOMAIN tasks
    /\ tasks[j].pc = "webhook"
    /\ LET tasks1 == [tasks EXCEPT ![j].webhookResponse = response]
       IN  IF SendWebhookRaises(response) /\ tasks[j].handler = "completion"
           THEN Fail(j, "fetch failed", tasks1)
           ELSE /\ Finally(j, tasks1, _progressStreams)
                /\ UNCHANGED << _jobStatuses, posts >>
    /\ UNCHANGED tempFiles
    /\ request' = NoRequest
    /\ UNCHANGED << nanoidCalls, call, handlers >>

\* the unlink as it would be if it were given another path than the one written:
\* it fails with ENOENT, which is ignored, and the file stays
UnlinkOfWrongPath(j, outcome) ==
    /\ j \in DOMAIN tasks
    /\ tasks[j].pc = "unlink"
    /\ outcome = "ok"
    /\ tempFiles' = tempFiles
    /\ tasks' = [tasks EXCEPT ![j] = [EndedTask EXCEPT !.unlink = "ENOENT"]]
    /\ UNCHANGED << _processing, _jobStatuses, _progressStreams, posts >>
    /\ request' = NoRequest
    /\ UNCHANGED << nanoidCalls, call, handlers >>

\* the end of the task as it would be if it evicted the record of its job
UnlinkEvictingRecord(j, outcome) ==
    /\ j \in DOMAIN tasks
    /\ tasks[j].pc = "unlink"
    /\ outcome # "ok" => j \in tempFiles
    /\ tempFiles' = IF outcome = "ok" THEN tempFiles \ {j} ELSE tempFiles
    /\ tasks' = [tasks EXCEPT ![j] =
                    [EndedTask EXCEPT !.unlink = IF j \in tempFiles THEN outcome ELSE "ENOENT"]]
    /\ _jobStatuses' = [ k \in DOMAIN _jobStatuses \ {j} |-> _jobStatuses[k] ]
    /\ UNCHANGED << _processing, _progressStreams, posts >>
    /\ request' = NoRequest
    /\ UNCHANGED << nanoidCalls, call, handlers >>

\* await fs.unlink(inputPath) settles, and the task ends: ENOENT is ignored, any
\* other error is logged
Unlink(j, outcome) ==
    /\ j \in DOMAIN tasks
    /\ tasks[j].pc = "unlink"
    /\ outcome # "ok" => j \in tempFiles
    /\ tempFiles' = IF outcome = "ok" THEN tempFiles \ {j} ELSE tempFiles
    /\ tasks' = [tasks EXCEPT ![j] =
                    [EndedTask EXCEPT !.unlink = IF j \in tempFiles THEN outcome ELSE "ENOENT"]]
    /\ UNCHANGED << _processing, _jobStatuses, _progressStreams, posts >>
    /\ request' = NoRequest
    /\ UNCHANGED << nanoidCalls, call, handlers >>

Next ==
    \/ \E s \in Submissions(WebhookUrls) : processImage(s.image, s.options, NextJobId)
    \/ \E s \in Submissions(WebhookPaths) : processBuffer(s.image, s.options, NextJobId)
    \/ \E j \in JobIds, outcome \in WriteOutcomes : WriteSettle(j, outcome)
    \/ \E j \in JobIds, run \in TesseractRuns : TextSettle(j, run)
    \/ \E j \in JobIds, scan \in ScanNames : CodeSettle(j, scan)
    \/ \E j \in JobIds : Join(j)
    \/ \E j \in JobIds, response \in WebhookResponses : WebhookSettle(j, response)
    \/ \E j \in JobIds, outcome \in UnlinkOutcomes : Unlink(j, outcome)

Spec == Init /\ [][Next]_vars

\* the service with job ids drawn at random
NextRandomIds ==
    \/ \E s \in Submissions(WebhookUrls), id \in NanoidDraws :
          processImage(s.image, s.options, id)
    \/ \E s \in Submissions(WebhookPaths), id \in NanoidDraws :
          processBuffer(s.image, s.options, id)
    \/ \E j \in JobIds, outcome \in WriteOutcomes : WriteSettle(j, outcome)
    \/ \E j \in JobIds, run \in TesseractRuns : TextSettle(j, run)
    \/ \E j \in JobIds, scan \in ScanNames : CodeSettle(j, scan)
    \/ \E j \in JobIds : Join(j)
    \/ \E j \in JobIds, response \in WebhookResponses : WebhookSettle(j, response)
    \/ \E j \in JobIds, outcome \in UnlinkOutcomes : Unlink(j, outcome)

SpecRandomIds == Init /\ [][NextRandomIds]_vars

\* a step of the background task of job j
TaskStep(j) ==
    \/ \E outcome \in WriteOutcomes : WriteSettle(j, outcome)
    \/ \E run \in TesseractRuns : TextSettle(j, run)
    \/ \E scan \in ScanNames : CodeSettle(j, scan)
    \/ Join(j)
    \/ \E response \in WebhookResponses : WebhookSettle(j, response)
    \/ \E outcome \in UnlinkOutcomes : Unlink(j, outcome)

MaxFairJobs == 1

\* the service followed up to its MaxFairJobs-th admitted job
NextFair ==
    \/ \E s \in Submissions(WebhookUrls) :
          nanoidCalls < MaxFairJobs /\ processImage(s.image, s.options, NextJobId)
    \/ \E s \in Submissions(WebhookPaths) :
          nanoidCalls < MaxFairJobs /\ processBuffer(s.image, s.options, NextJobId)
    \/ \E j \in JobIds, outcome \in WriteOutcomes : WriteSettle(j, outcome)
    \/ \E j \in JobIds, run \in TesseractRuns : TextSettle(j, run)
    \/ \E j \in JobIds, scan \in ScanNames : CodeSettle(j, scan)
    \/ \E j \in JobIds : Join(j)
    \/ \E j \in JobIds, response \in WebhookResponses : WebhookSettle(j, response)
    \/ \E j \in JobIds, outcome \in UnlinkOutcomes : Unlink(j, outcome)

\* that service when every operation a task waits for settles: the write, the
\* two adapters, the webhook POST (fetch gives up on a target that does not
\* answer) and the unlink
FairSpec == Init /\ [][NextFair]_vars /\ \A j \in JobIds : WF_vars(TaskStep(j))

\* a step of the task of job j up to the end of its try or catch block
StepUpToJoin(j) ==
    \/ \E outcome \in WriteOutcomes : WriteSettle(j, outcome)
    \/ \E run \in TesseractRuns : TextSettle(j, run)
    \/ \E scan \in ScanNames : CodeSettle(j, scan)
    \/ Join(j)

\* that service when the write and the two adapters settle, whatever becomes of
\* the webhook POST and of the unlink
FairSpecUpToJoin ==
    Init /\ [][NextFair]_vars /\ \A j \in JobIds : WF_vars(StepUpToJoin(j))


(***************************************************************************)
(* The handler of POST /ocr/process followed statement by statement, for   *)
(* requests that arrive while the service is idle.  The event loop runs    *)
(* an invocation from one suspension to the next without running anything  *)
(* else in between.                                                        *)
(***************************************************************************)
MaxRequests == 2

Requests == 1..MaxRequests

\* the suspensions as they would be with an await between the busy check and
\* the call of startImageRecognitionOnBuffer
SuspendedAlsoAfterCheck(pc) == pc \in {"arrived", "checked", "awaiting"}

\* where an invocation of processImage is suspended: before its body runs (the
\* file interceptor reads the upload) and at
\* `await this._ocrService.startImageRecognitionOnBuffer(...)`
Suspended(pc) == pc \in {"arrived", "awaiting"}

Finished(h) == handlers[h].pc \in {"accepted", "rejected"}

\* invocation h has run part of its body and is not suspended
Running(h) == ~Finished(h) /\ ~Suspended(handlers[h].pc)

\* the event loop is free to run a callback of h, or any callback
MayRun(h) == \A g \in DOMAIN handlers \ {h} : ~Running(g)

NoneRunning == \A g \in DOMAIN handlers : ~Running(g)

\* the checks of processImage that follow the busy check
StrategyResponse(strategyTag, webhookUrl) ==
    IF strategyTag \notin ValidStrategies THEN "BadRequest"
    ELSE IF strategyTag = "webhook" /\ webhookUrl = "" THEN "BadRequest"
    ELSE "Accepted"

\* a request with a valid image arrives while the service is idle
Arrive(h, options) ==
    /\ h = Cardinality(DOMAIN handlers) + 1
    /\ NoneRunning
    /\ ~isProcessing
    /\ handlers' = handlers @@
          (h :> [ pc |-> "arrived", options |-> options, response |-> "none",
                  busyAtStart |-> FALSE, jobId |-> 0 ])
    /\ request' = NoRequest
    /\ UNCHANGED << _processing, _jobStatuses, _progressStreams, tasks, tempFiles,
                    posts, nanoidCalls, call >>

\* the body up to if (this._ocrService.isProcessing()) throw ...
CheckBusy(h) ==
    /\ h \in DOMAIN handlers
    /\ handlers[h].pc = "arrived"
    /\ MayRun(h)
    /\ handlers' =
          IF isProcessing
          THEN [handlers EXCEPT ![h].pc = "rejected", ![h].response = "ServiceUnavailable"]
          ELSE [handlers EXCEPT ![h].pc = "checked"]
    /\ request' = NoRequest
    /\ UNCHANGED << _processing, _jobStatuses, _progressStreams, tasks, tempFiles,
                    posts, nanoidCalls, call >>

\* the body from JSON.parse to the call of startImageRecognitionOnBuffer, which
\* runs up to the first suspension of the task it starts
Start(h) ==
    /\ h \in DOMAIN handlers
    /\ handlers[h].pc = "checked"
    /\ MayRun(h)
    /\ LET o == handlers[h].options
           response == StrategyResponse(o.returnStrategy, o.webhookUrl)
       IN  IF response = "Accepted"
           THEN /\ NextJobId \in JobIds
                /\ handlers' = [handlers EXCEPT ![h].pc = "awaiting",
                                                ![h].busyAtStart = _processing,
                                                ![h].jobId = NextJobId]
                /\ startImageRecognitionOnBuffer(NextJobId, o.returnStrategy, o.webhookUrl)
           ELSE /\ handlers' = [handlers EXCEPT ![h].pc = "rejected",
                                                ![h].response = response]
                /\ UNCHANGED << _processing, _jobStatuses, _progressStreams, tasks,
                                tempFiles, posts, nanoidCalls >>
    /\ request' = NoRequest
    /\ UNCHANGED call

\* the await settles and the handler returns the job id
Return(h) ==
    /\ h \in DOMAIN handlers
    /\ handlers[h].pc = "awaiting"
    /\ MayRun(h)
    /\ handlers' = [handlers EXCEPT ![h].pc = "accepted", ![h].response = "Accepted"]
    /\ request' = NoRequest
    /\ UNCHANGED << _processing, _jobStatuses, _progressStreams, tasks, tempFiles,
                    posts, nanoidCalls, call >>

NextHandlers ==
    \/ \E h \in Requests, o \in Options(WebhookUrls) : Arrive(h, o)
    \/ \E h \in Requests : CheckBusy(h)
    \/ \E h \in Requests : Start(h)
    \/ \E h \in Requests : Return(h)
    \/ \E j \in JobIds, outcome \in WriteOutcomes : NoneRunning /\ WriteSettle(j, outcome)
    \/ \E j \in JobIds, run \in TesseractRuns : NoneRunning /\ TextSettle(j, run)
    \/ \E j \in JobIds, scan \in ScanNames : NoneRunning /\ CodeSettle(j, scan)
    \/ \E j \in JobIds : NoneRunning /\ Join(j)
    \/ \E j \in JobIds, response \in WebhookResponses : NoneRunning /\ WebhookSettle(j, response)
    \/ \E j \in JobIds, outcome \in UnlinkOutcomes : NoneRunning /\ Unlink(j, outcome)

SpecHandlers == Init /\ [][NextHandlers]_vars


(***************************************************************************)
(* The push channel of a job and the callers that subscribe to it through  *)
(* GET /ocr/progress/:jobId.                                               *)
(***************************************************************************)
MaxSubscriptions == 2

\* GET /ocr/progress/:jobId for the channel of a job: the caller subscribes
Subscribe(jobId) ==
    /\ getProgressStream(jobId) # NotFound
    /\ Len(_progressStreams[jobId].observers) < MaxSubscriptions
    /\ _progressStreams' = [_progressStreams EXCEPT ![jobId] = SubscribeTo(@)]
    /\ request' = NoRequest
    /\ UNCHANGED << _processing, _jobStatuses, tasks, tempFiles, posts, nanoidCalls,
                    call, handlers >>

\* the service followed up to its MaxFairJobs-th job, with subscriptions
NextSubscribers ==
    \/ \E s \in Submissions(WebhookUrls) :
          nanoidCalls < MaxFairJobs /\ processImage(s.image, s.options, NextJobId)
    \/ \E s \in Submissions(WebhookPaths) :
          nanoidCalls < MaxFairJobs /\ processBuffer(s.image, s.options, NextJobId)
    \/ \E jobId \in AskedIds : Subscribe(jobId)
    \/ \E j \in JobIds, outcome \in WriteOutcomes : WriteSettle(j, outcome)
    \/ \E j \in JobIds, run \in TesseractRuns : TextSettle(j, run)
    \/ \E j \in JobIds, scan \in ScanNames : CodeSettle(j, scan)
    \/ \E j \in JobIds : Join(j)
    \/ \E j \in JobIds, response \in WebhookResponses : WebhookSettle(j, response)
    \/ \E j \in JobIds, outcome \in UnlinkOutcomes : Unlink(j, outcome)

SpecSubscribers == Init /\ [][NextSubscribers]_vars


(***************************************************************************)
(* The normalizer and the overlap resolver called on their own, on the     *)
(* TSV files and the rectangles below.                                     *)
(***************************************************************************)
MaxRows == 4

MaxCalls == 2

MaxRects == 2

\* the longest text calculateBaseline is called on
MaxText == 2

\* the data rows of the TSV files: page rows of size 1000x1000 and 0x0, a row
\* of level 4, words on two text lines (Hello, big and Hi have baselines
\* 0.07, 0.0684 and 0.072; Hello and Hi have the same left), a word in the
\* top left corner of the page, a blank word, a row cut short, a page row of
\* 13 columns (a tab after its empty text) and a page row cut short
TsvRows ==
    { PageRow(1000, 1000),
      PageRow(0, 0),
      << 4, 1, 1, 1, 1, 0, 100, 50, 400, 20, -1, <<>> >>,
      WordRow(100, 50, 80, 20, 96, <<"H", "e", "l", "l", "o">>),
      WordRow(300, 53, 80, 20, 90, <<"b", "i", "g">>),
      WordRow(100, 52, 80, 20, 85, <<"H", "i">>),
      WordRow(50, 10, 40, 20, 60, <<" ", "o", "n">>),
      WordRow(0, 0, 30, 20, 50, <<"A">>),
      WordRow(500, 50, 80, 20, 70, <<" ", " ">>),
      << 5, 1, 1, 1, 1, 4, 600, 50, 80 >>,
      PageRow(1000, 1000) \o << <<>> >>,
      << 1, 1, 0, 0, 0, 0, 0, 0, 1000 >> }

\* the sequences of up to n distinct members of S
RECURSIVE SeqsUpTo(_, _)
SeqsUpTo(S, n) ==
    IF n = 0 THEN { <<>> }
    ELSE LET shorter == SeqsUpTo(S, n - 1)
         IN  shorter \cup
             UNION { { Append(q, x) : x \in { y \in S : \A i \in 1..Len(q) : q[i] # y } } :
                     q \in shorter }

\* the TSV files: the header line and up to MaxRows data rows, no row twice
TsvInputs == { <<TsvHeader>> \o rows : rows \in SeqsUpTo(TsvRows, MaxRows) }

\* a rectangle on a grid of tenths
Rect(left, top, width, height, id) ==
    [ left |-> Norm(left, 10), top |-> Norm(top, 10), width |-> Norm(width, 10),
      height |-> Norm(height, 10), data |-> [id |-> id] ]

\* word rectangles around the code 2..6 x 2..6: enclosed, partly covering,
\* touching its right edge, touching its corner, disjoint, enclosing it, and a
\* word of width 0 inside it
WordRects ==
    { Rect(3, 3, 1, 1, "enclosed"), Rect(5, 5, 3, 3, "partial"),
      Rect(6, 2, 2, 2, "edge"), Rect(6, 6, 1, 1, "corner"),
      Rect(8, 8, 1, 1, "disjoint"), Rect(1, 1, 6, 6, "enclosing"),
      Rect(4, 3, 0, 1, "thin") }

CodeRects == { Rect(2, 2, 4, 4, "qr"), Rect(0, 8, 1, 1, "ean") }

\* parseTsvOutput(tsvContent) called on its own
CallParseTsvOutput(tsvContent) ==
    /\ call.fn = "none"
    /\ call' = [ fn |-> "parseTsvOutput", seed |-> call.seed + 1, input |-> tsvContent,
                 result |-> parseTsvOutput(tsvContent, call.seed + 1) ]
    /\ UNCHANGED << _processing, _jobStatuses, _progressStreams, tasks, tempFiles,
                    posts, nanoidCalls, request, handlers >>

\* _filterOverlappingText(textResults, codes) called on its own
CallFilterOverlappingText(textResults, codes) ==
    /\ call.fn = "none"
    /\ call' = [ fn |-> "_filterOverlappingText", seed |-> call.seed + 1,
                 input |-> [textResults |-> textResults, codes |-> codes],
                 result |-> _filterOverlappingText(textResults, codes) ]
    /\ UNCHANGED << _processing, _jobStatuses, _progressStreams, tasks, tempFiles,
                    posts, nanoidCalls, request, handlers >>

\* parseTsvOutput called once more on the TSV file of the last call
CallParseTsvOutputAgain ==
    /\ call.fn = "parseTsvOutput"
    /\ call.seed < MaxCalls
    /\ call' = [ call EXCEPT !.seed = call.seed + 1,
                             !.result = parseTsvOutput(call.input, call.seed + 1) ]
    /\ UNCHANGED << _processing, _jobStatuses, _progressStreams, tasks, tempFiles,
                    posts, nanoidCalls, request, handlers >>

\* the characters of the texts calculateBaseline is called on: letters with and
\* without a descender in both cases, a bracket, c with cedilla in both cases,
\* capital S with comma below
BaselineAlphabet == { "a", "A", "g", "G", "(", "U+00E7", "U+00C7", "U+0218" }

RECURSIVE TextsUpTo(_)
TextsUpTo(n) ==
    IF n = 0 THEN { <<>> }
    ELSE LET shorter == TextsUpTo(n - 1)
         IN  shorter \cup { Append(t, c) : t \in shorter, c \in BaselineAlphabet }

\* the boxes calculateBaseline is called on: top and height
BaselineBoxes == { << Num(0, 1), Num(1, 50) >>, << Num(1, 20), Num(1, 50) >> }

\* calculateBaseline(text, top, height) called on its own
CallCalculateBaseline(text, top, height) ==
    /\ call.fn = "none"
    /\ call' = [ fn |-> "calculateBaseline", seed |-> call.seed + 1,
                 input |-> [text |-> text, top |-> top, height |-> height],
                 result |-> calculateBaseline(text, top, height) ]
    /\ UNCHANGED << _processing, _jobStatuses, _progressStreams, tasks, tempFiles,
                    posts, nanoidCalls, request, handlers >>

\* TesseractService.processImage called on its own, on a run of the engine
CallTesseractProcessImage(run) ==
    /\ call.fn = "none"
    /\ call' = [ fn |-> "TesseractService.processImage", seed |-> call.seed + 1,
                 input |-> run,
                 result |-> TesseractProcessImage(run, call.seed + 1) ]
    /\ UNCHANGED << _processing, _jobStatuses, _progressStreams, tasks, tempFiles,
                    posts, nanoidCalls, request, handlers >>

NextFunctions ==
    \/ \E tsvContent \in TsvInputs : CallParseTsvOutput(tsvContent)
    \/ CallParseTsvOutputAgain
    \/ \E textResults \in SeqsUpTo(WordRects, MaxRects), codes \in SeqsUpTo(CodeRects, MaxRects) :
          CallFilterOverlappingText(textResults, codes)
    \/ \E text \in TextsUpTo(MaxText), box \in BaselineBoxes :
          CallCalculateBaseline(text, box[1], box[2])
    \/ \E run \in AllTesseractRuns : CallTesseractProcessImage(run)

SpecFunctions == Init /\ [][NextFunctions]_vars

(***************************************************************************)
(* Properties.                                                             *)
(***************************************************************************)
Terminal(j) == _jobStatuses[j].status \in {"completed", "failed"}

Processing == { j \in DOMAIN _jobStatuses : _jobStatuses[j].status = "processing" }

\* the submissions that pass every check of the specification: a non-empty image
\* of at most 10MB, a recognised strategy, a target with the webhook strategy
ValidSubmissions(urls) ==
    { s \in Submissions(urls) :
        /\ s.image = ValidImage
        /\ s.options.returnStrategy \in ValidStrategies
        /\ s.options.returnStrategy = "webhook" => s.options.webhookUrl # "" }

\* the submissions whose image is empty, larger than 10MB or not an image
InvalidImageSubmissions(urls) ==
    { s \in Submissions(urls) :
        /\ s.image.present
        /\ s.image.size = 0 \/ s.image.size > MaxFileSize \/ s.image.type # "image" }

\* a step is the call of either submission endpoint with s
Submit(s) ==
    processImage(s.image, s.options, NextJobId) \/ processBuffer(s.image, s.options, NextJobId)

\* the task of job j has passed the join of the two adapters
Joined(j) ==
    /\ tasks[j].pc \in {"webhook", "unlink"}
    /\ tasks[j].textSettled
    /\ tasks[j].codeSettled

\* C1: in every reachable state at most one job record has status 'processing'.
AtMostOneProcessing == Cardinality(Processing) <= 1

\* C2: a valid submission made while the busy flag is held, through either
\* endpoint, is answered Busy (503) and leaves the job table, the channel
\* registry and the busy flag unchanged.
BusySubmissionRejected ==
    [][ \A s \in ValidSubmissions(WebhookUrls) \cup ValidSubmissions(WebhookPaths) :
          (_processing /\ Submit(s)) =>
              /\ request'.response = "ServiceUnavailable"
              /\ UNCHANGED << _jobStatuses, _progressStreams, _processing >> ]_vars

\* C3: once every job record shows a terminal status, a valid submission is
\* admitted (not answered Busy), whatever the strategy of the earlier jobs
\* and without waiting for the answer to a webhook POST.
TerminalThenAdmitted ==
    [][ \A s \in ValidSubmissions(WebhookUrls) :
          ((\A j \in DOMAIN _jobStatuses : Terminal(j)) /\ processImage(s.image, s.options, NextJobId)) =>
              request'.response = "Accepted" ]_vars

\* C4: a record whose status is completed or failed keeps that status in every
\* later step (the status only moves processing -> completed or
\* processing -> failed).
TerminalStatusIsFinal ==
    [][ \A j \in DOMAIN _jobStatuses :
          Terminal(j) => _jobStatuses'[j].status = _jobStatuses[j].status ]_vars

\* C4 witness: a completed webhook job whose POST met a network error and whose
\* task went on to the finally block.
CompletedAfterNetworkError ==
    \E j \in DOMAIN tasks :
        /\ tasks[j].pc = "unlink"
        /\ tasks[j].webhookResponse = "networkError"
        /\ tasks[j].handler = "completion"
        /\ _jobStatuses[j].status = "completed"

\* C5: a job whose Recognition adapter failed ends in status 'failed' with an
\* error message, whatever the Code Detection adapter returned.
TextFailureFailsJob ==
    \A j \in DOMAIN tasks :
        (Joined(j) /\ TesseractProcessImage(tasks[j].textRun, j).threw) =>
            /\ _jobStatuses[j].status = "failed"
            /\ _jobStatuses[j].error # Undefined

\* C6: a job whose Code Detection adapter failed while the Recognition adapter
\* succeeded ends in status 'completed' with no codes and with exactly the
\* Recognition adapter's words.
CodeFailureKeepsWords ==
    \A j \in DOMAIN tasks :
        ( /\ Joined(j)
          /\ ~TesseractProcessImage(tasks[j].textRun, j).threw
          /\ CodeReaderProcessImage(tasks[j].codeRun, j).threw ) =>
            /\ _jobStatuses[j].status = "completed"
            /\ _jobStatuses[j].result # UndefinedResult
            /\ _jobStatuses[j].result.codes = <<>>
            /\ _jobStatuses[j].result.words = TesseractProcessImage(tasks[j].textRun, j).value

\* C6 witness: the decoder failed on a job whose engine run produced three words,
\* and the job has passed the join.
CodeFailedWithWords ==
    \E j \in DOMAIN tasks :
        /\ Joined(j)
        /\ tasks[j].textRun.tsv = "mixed"
        /\ tasks[j].codeRun = "fail"
        /\ Len(_jobStatuses[j].result.words) = 3

\* the terminal event of job j as its record describes it
TerminalEvent(j) ==
    [ type |-> IF _jobStatuses[j].status = "completed" THEN "complete" ELSE "error",
      result |-> JsonResult(_jobStatuses[j].result),
      error |-> _jobStatuses[j].error ]

\* C7: the channel of a push-strategy job carries nothing while the job is
\* processing; from the moment the record is terminal (on the write-failure
\* path, the adapter paths and the success path alike) it carries exactly one
\* terminal event, 'complete' with the result or 'error' with the message,
\* followed by the close and by nothing else; every task with strategy sse has
\* a channel.
OneTerminalEventThenClose ==
    /\ \A j \in DOMAIN tasks :
          (tasks[j].pc # "done" /\ tasks[j].returnStrategy = "sse") =>
              j \in DOMAIN _progressStreams
    /\ \A j \in DOMAIN _progressStreams :
          IF Terminal(j)
          THEN /\ _progressStreams[j].log = << TerminalEvent(j), [type |-> "close"] >>
               /\ _progressStreams[j].isStopped
               /\ tasks[j].pc \in {"unlink", "done"}
          ELSE /\ _progressStreams[j].log = <<>>
               /\ ~_progressStreams[j].isStopped
               /\ tasks[j].pc \in {"write", "adapters"}

\* C7 witness: a push job failed on the temp-file write and another completed,
\* and both channels are closed.
PushJobsFailedAndCompleted ==
    \E j, k \in DOMAIN _progressStreams :
        /\ _jobStatuses[j].status = "failed"
        /\ _progressStreams[j].log[1].type = "error"
        /\ _jobStatuses[k].status = "completed"
        /\ _progressStreams[k].log[1].type = "complete"
        /\ _progressStreams[j].isStopped /\ _progressStreams[k].isStopped

\* C8: the step in which a webhook POST is answered with a non-2xx response or
\* fails with a network error leaves the job's record (status, result, error,
\* completedAt) and its list of POSTs unchanged; no job is the subject of more
\* than one POST.
FailedDeliveryChangesNothing ==
    /\ [][ \A j \in DOMAIN tasks :
             ( /\ tasks[j].pc = "webhook"
               /\ tasks'[j].pc # "webhook"
               /\ tasks'[j].webhookResponse \in {"non2xx", "networkError"} ) =>
                 /\ _jobStatuses'[j] = _jobStatuses[j]
                 /\ posts'[j] = posts[j] ]_vars
    /\ [](\A j \in DOMAIN posts : Len(posts[j]) <= 1)

\* C8 witness: a webhook job past a POST that was answered non-2xx, with one POST.
OnePostAnsweredNon2xx ==
    \E j \in DOMAIN tasks :
        /\ tasks[j].pc = "unlink"
        /\ tasks[j].webhookResponse = "non2xx"
        /\ Len(posts[j]) = 1
        /\ Terminal(j)

\* C9: a submission whose image is empty, larger than 10MB or not an image is
\* answered InvalidInput (400) through either endpoint, and creates no record,
\* opens no channel and does not take the busy flag.
InvalidImageRejected ==
    [][ \A s \in InvalidImageSubmissions(WebhookUrls) :
          Submit(s) =>
              /\ request'.response = "BadRequest"
              /\ UNCHANGED << _jobStatuses, _progressStreams, _processing >> ]_vars

\* C10: a job whose engine run left a TSV file without level-1 page row ends in
\* status 'failed' with an error message, and its task has released the busy
\* flag when it reaches the unlink (no other task being between its start and
\* its finally block).
MalformedTsvFailsJob ==
    \A j \in DOMAIN tasks :
        (tasks[j].pc = "unlink" /\ tasks[j].textSettled /\ tasks[j].textRun.tsv = "noPage") =>
            /\ _jobStatuses[j].status = "failed"
            /\ _jobStatuses[j].error # Undefined
            /\ (\A k \in DOMAIN tasks \ {j} : tasks[k].pc \in {"unlink", "done"}) => ~_processing


\* C11: getJobStatus(id) returns the record of job id for every id a successful
\* submission returned, whatever the job's strategy and status, and fails
\* NotFound for every other id.
StatusOfIssuedIdsOnly ==
    /\ \A id \in AskedIds :
          IF id \in DOMAIN tasks
          THEN getJobStatus(id) # NotFound /\ getJobStatus(id).jobId = id
          ELSE getJobStatus(id) = NotFound
    /\ request.response = "Accepted" =>
          /\ request.jobId \in DOMAIN tasks
          /\ getJobStatus(request.jobId).status = "processing"

\* C11 witness: a webhook job whose record is completed and a polling job that
\* is still processing are both found, and an id never issued is not.
StatusFoundForTwoStrategies ==
    \E j, k \in DOMAIN tasks :
        /\ tasks[j].pc = "webhook" /\ getJobStatus(j).status = "completed"
        /\ tasks[k].returnStrategy = "polling" /\ tasks[k].pc = "adapters"
        /\ getJobStatus(k).status = "processing"
        /\ getJobStatus(MaxJobs + 1) = NotFound

\* C12: getProgressStream(id) succeeds exactly for the ids of sse jobs: a
\* submission accepted with tag sse has a channel from the step that accepts it,
\* one accepted with tag webhook or polling has none, a running task has a
\* channel exactly when its strategy is sse, and an id never issued has none.
ChannelOfPushJobsOnly ==
    /\ \A id \in AskedIds :
          /\ id \notin DOMAIN tasks => getProgressStream(id) = NotFound
          /\ (id \in DOMAIN tasks /\ tasks[id].pc # "done") =>
                (getProgressStream(id) # NotFound <=> tasks[id].returnStrategy = "sse")
    /\ (request.response = "Accepted" /\ request.returnStrategy = "sse") =>
          getProgressStream(request.jobId) = NewSubject
    /\ (request.response = "Accepted" /\ request.returnStrategy \in {"webhook", "polling"}) =>
          getProgressStream(request.jobId) = NotFound

\* C12 witness: a submission with tag polling was just accepted while an sse job
\* has its channel.
PollingJobWithoutChannel ==
    /\ request.response = "Accepted"
    /\ request.returnStrategy = "polling"
    /\ getProgressStream(request.jobId) = NotFound
    /\ \E j \in DOMAIN tasks : getProgressStream(j) # NotFound

\* C13: the step in which the temp-file write of a job fails marks the job
\* 'failed' with an error message and takes its task past the adapters (to the
\* delivery or the finally block) with neither adapter settled; a task that
\* is past the adapters never returns to them, and an adapter only settles for
\* a task that is at the adapters.
WriteFailureSkipsAdapters ==
    /\ [][ \A j \in DOMAIN tasks :
             (tasks[j].pc = "write" /\ tasks'[j].pc # "write" /\ j \notin tempFiles') =>
                 /\ _jobStatuses'[j].status = "failed"
                 /\ _jobStatuses'[j].error # Undefined
                 /\ tasks'[j].pc \in {"webhook", "unlink"}
                 /\ ~tasks'[j].textSettled /\ ~tasks'[j].codeSettled ]_vars
    /\ [][ \A j \in DOMAIN tasks :
             /\ tasks[j].pc \in {"webhook", "unlink", "done"} => tasks'[j].pc # "adapters"
             /\ ( \/ (tasks'[j].textSettled /\ ~tasks[j].textSettled)
                  \/ (tasks'[j].codeSettled /\ ~tasks[j].codeSettled) ) =>
                    tasks[j].pc = "adapters" ]_vars

\* C13 witness: a job whose write failed is at the unlink, failed, without temp
\* file and with neither adapter settled.
FailedOnWrite ==
    \E j \in DOMAIN tasks :
        /\ tasks[j].pc = "unlink"
        /\ j \notin tempFiles
        /\ ~tasks[j].textSettled /\ ~tasks[j].codeSettled
        /\ _jobStatuses[j].status = "failed"
        /\ _jobStatuses[j].error = "Cannot write to temp directory"

\* C14 as stated: the temp file of a job exists while its task is at the
\* adapters, and does not exist once the task has ended.
TempFileGoneAtEnd ==
    \A j \in DOMAIN tasks :
        /\ tasks[j].pc = "adapters" => j \in tempFiles
        /\ tasks[j].pc = "done" => j \notin tempFiles

\* C14 amended: the temp file of a job exists while its task is at the adapters;
\* the task leaves the adapters only when both have settled, with the file
\* still there; the file is removed by the unlink of its own task only; once
\* the task has ended the file does not exist unless the unlink failed with an
\* error other than ENOENT; and the unlink, ENOENT included, leaves the job's
\* record unchanged.
TempFileLifetime ==
    /\ [](\A j \in DOMAIN tasks :
             /\ tasks[j].pc = "adapters" => j \in tempFiles
             /\ (tasks[j].pc = "done" /\ tasks[j].unlink \in {"ok", "ENOENT"}) =>
                   j \notin tempFiles)
    /\ [][ \A j \in DOMAIN tasks :
             /\ (tasks[j].pc = "adapters" /\ tasks'[j].pc # "adapters") =>
                   tasks[j].textSettled /\ tasks[j].codeSettled /\ j \in tempFiles'
             /\ (j \in tempFiles /\ j \notin tempFiles') => tasks[j].pc = "unlink"
             /\ (tasks[j].pc = "unlink" /\ tasks'[j].pc = "done") =>
                   _jobStatuses'[j] = _jobStatuses[j] ]_vars

\* C14 witness: one job ended after its file was removed, another ended after an
\* unlink that found no file, and that job is still failed.
EndedWithAndWithoutFile ==
    \E j, k \in DOMAIN tasks :
        /\ tasks[j].pc = "done" /\ tasks[j].unlink = "ok"
        /\ _jobStatuses[j].status = "completed" /\ j \notin tempFiles
        /\ tasks[k].pc = "done" /\ tasks[k].unlink = "ENOENT"
        /\ _jobStatuses[k].status = "failed" /\ k \notin tempFiles

\* C15: the step of a successful submission gives the job an id that is not in
\* the job table yet, and leaves every record and every channel that exists
\* unchanged; the jobId of a record equals its key in every state.
JobIdsAreUnique ==
    /\ [][ nanoidCalls' # nanoidCalls =>
             /\ request'.jobId \notin DOMAIN _jobStatuses
             /\ \A j \in DOMAIN _jobStatuses : _jobStatuses'[j] = _jobStatuses[j]
             /\ \A j \in DOMAIN _progressStreams : _progressStreams'[j] = _progressStreams[j] ]_vars
    /\ [](\A j \in DOMAIN _jobStatuses : _jobStatuses[j].jobId = j)

\* a data row of level 5 whose text column holds a character that is not white space
HasLevel5Text(row) ==
    /\ Len(row) >= 12
    /\ row[1] = 5
    /\ \E i \in 1..Len(row[12]) : row[12][i] \notin Whitespace

Normalized == call.fn = "parseTsvOutput" /\ ~call.result.threw

\* C16: when the normalizer returns words, the k-th data row of level 5 with
\* non-blank text is the source of exactly one word (the k-th word made, with
\* the trimmed text of that row) and there are no other words, so that the
\* words are at most as many as the rows of level 5.
OneWordPerTextRow ==
    Normalized =>
        LET dataLines == Tail(call.input)
            rows      == SelectSeq(dataLines, HasLevel5Text)
            words     == call.result.value
        IN  /\ Len(words) = Len(rows)
            /\ \A k \in 1..Len(rows) :
                  Cardinality({ i \in 1..Len(words) :
                                  /\ words[i].data.id = nanoid(call.seed, k)
                                  /\ words[i].data.text = trim(rows[k][12]) }) = 1
            /\ Len(words) <= Cardinality({ i \in 1..Len(dataLines) : dataLines[i][1] = 5 })

\* one word out of a file that also holds a level-5 row of blanks and a
\* level-5 row cut short of its text column
OneWordOfThreeLevel5Rows ==
    /\ Normalized
    /\ Len(call.result.value) = 1
    /\ \E i \in 2..Len(call.input) :
          /\ Len(call.input[i]) >= 12 /\ call.input[i][1] = 5
          /\ call.input[i][12] # <<>> /\ trim(call.input[i][12]) = <<>>
    /\ \E i \in 2..Len(call.input) : Len(call.input[i]) < 12 /\ call.input[i][1] = 5

\* C17: every word the normalizer returns has top <= baseline <= top + height.
BaselineWithinBox ==
    Normalized =>
        \A i \in 1..Len(call.result.value) :
            LET word == call.result.value[i]
            IN  /\ Leq(word.top, word.baseline)
                /\ Leq(word.baseline, Add(word.top, word.height))

\* the page size the normalizer divides by
PageSizeOf(tsvContent) ==
    PageSize(Tail(tsvContent)[FindPageLine(Tail(tsvContent), 1)])

SizedPage(tsvContent) ==
    /\ Less(Num(0, 1), PageSizeOf(tsvContent).width)
    /\ Less(Num(0, 1), PageSizeOf(tsvContent).height)

\* the same for the files whose page row reports a positive width and height
BaselineWithinBoxOfSizedPage ==
    (Normalized /\ SizedPage(call.input)) => BaselineWithinBox

\* the words in the order the engine reported them, and their line-groups
EngineWords == CollectWords(Tail(call.input), PageSizeOf(call.input), call.seed, <<>>)

EngineGroups == GroupWords(EngineWords, <<>>)

\* the place of a word in the output
Pos(word) ==
    CHOOSE i \in 1..Len(call.result.value) : call.result.value[i].data.id = word.data.id

\* the place of a word in the engine's report
EnginePos(word) ==
    CHOOSE i \in 1..Len(EngineWords) : EngineWords[i].data.id = word.data.id

Members(group) == { group[i] : i \in 1..Len(group) }

\* the pairs of words of a group that follow one another in the output
ConsecutivePairs(group) ==
    { p \in Members(group) \X Members(group) :
        /\ Pos(p[1]) < Pos(p[2])
        /\ ~ \E w \in Members(group) : Pos(p[1]) < Pos(w) /\ Pos(w) < Pos(p[2]) }

\* the words of a group of smaller mean baseline precede those of a group of greater one
GroupsTopToBottom ==
    \A a, b \in 1..Len(EngineGroups) :
        Less(AvgBaseline(EngineGroups[a]), AvgBaseline(EngineGroups[b])) =>
            \A x \in Members(EngineGroups[a]), y \in Members(EngineGroups[b]) : Pos(x) < Pos(y)

Filtered == call.fn = "_filterOverlappingText"

MinNum(a, b) == IF Leq(a, b) THEN a ELSE b

MaxNum(a, b) == IF Leq(a, b) THEN b ELSE a

\* the width and the height of the intersection of two rectangles (negative
\* or 0 when they are apart in that direction)
IntersectionWidth(r, c) ==
    Sub(MinNum(Add(r.left, r.width), Add(c.left, c.width)), MaxNum(r.left, c.left))

IntersectionHeight(r, c) ==
    Sub(MinNum(Add(r.top, r.height), Add(c.top, c.height)), MaxNum(r.top, c.top))

PositiveAreaIntersection(r, c) ==
    /\ Less(Num(0, 1), IntersectionWidth(r, c))
    /\ Less(Num(0, 1), IntersectionHeight(r, c))

\* the rectangles have a point in common
Meet(r, c) ==
    /\ Leq(Num(0, 1), IntersectionWidth(r, c))
    /\ Leq(Num(0, 1), IntersectionHeight(r, c))

HasArea(r) == Less(Num(0, 1), r.width) /\ Less(Num(0, 1), r.height)

\* a rectangle without area that reaches into the inside of the other one
\* in both directions
ReachesInside(r, c) ==
    /\ ~HasArea(r)
    /\ Less(c.left, Add(r.left, r.width)) /\ Less(r.left, Add(c.left, c.width))
    /\ Less(c.top, Add(r.top, r.height)) /\ Less(r.top, Add(c.top, c.height))

WithoutId(word) ==
    [ left |-> word.left, top |-> word.top, width |-> word.width, height |-> word.height,
      baseline |-> word.baseline, text |-> word.data.text,
      confidence |-> word.data.confidence ]

WithoutIds(words) == [i \in 1..Len(words) |-> WithoutId(words[i])]

Released(j) == j \in DOMAIN tasks /\ tasks[j].pc \in {"unlink", "done"}

AdmittedJobBecomesTerminal ==
    /\ \A j \in JobIds :
          (j \in DOMAIN _jobStatuses) ~> (j \in DOMAIN _jobStatuses /\ Terminal(j))
    /\ [](\A j \in DOMAIN tasks : tasks[j].pc = "webhook" => Terminal(j))

\* a job is completed and its task waits for the answer to its POST
CompletedWhilePostPending ==
    \E j \in DOMAIN tasks :
        /\ tasks[j].pc = "webhook"
        /\ _jobStatuses[j].status = "completed"
        /\ Len(posts[j]) = 1

\* C23: while the task of a job waits for its adapters the record is
\* processing and nothing has been delivered, whichever adapter has settled
\* or failed; and the step that takes the task past the adapters finds both
\* settled, each with the run it was given, and, when it completes the job,
\* stores the words of the one filtered by the codes of the other.
MergeIsJoin ==
    /\ [](\A j \in DOMAIN tasks :
            tasks[j].pc = "adapters" =>
                /\ _jobStatuses[j].status = "processing"
                /\ posts[j] = <<>>
                /\ j \in DOMAIN _progressStreams => _progressStreams[j].log = <<>>)
    /\ [][ \A j \in DOMAIN tasks :
             (tasks[j].pc = "adapters" /\ tasks'[j].pc # "adapters") =>
                 /\ tasks[j].textSettled /\ tasks[j].codeSettled
                 /\ tasks[j].textRun \in TesseractRuns /\ tasks[j].codeRun \in ScanNames
                 /\ Terminal(j)'
                 /\ _jobStatuses'[j].status = "completed" =>
                       _jobStatuses'[j].result =
                           [ words |-> _filterOverlappingText(tasks[j].text.value,
                                                              tasks[j].codes.value),
                             codes |-> tasks[j].codes.value ] ]_vars

\* two jobs wait for their adapters: of the one the Recognition adapter has
\* failed and the Code Detection adapter has not settled, of the other one the
\* Code Detection adapter has failed and the Recognition adapter has not settled
EitherAdapterFailedFirst ==
    \E j, k \in DOMAIN tasks :
        /\ tasks[j].pc = "adapters" /\ tasks[k].pc = "adapters"
        /\ tasks[j].textSettled /\ ~tasks[j].codeSettled
        /\ TesseractProcessImage(tasks[j].textRun, j).threw
        /\ tasks[k].codeSettled /\ ~tasks[k].textSettled
        /\ CodeReaderProcessImage(tasks[k].codeRun, k).threw

\* the terminal events a channel has carried
TerminalEventsOf(j) ==
    { i \in 1..Len(_progressStreams[j].log) :
        _progressStreams[j].log[i].type \in {"complete", "error"} }

\* C24: from the step that issues the webhook POST or emits the terminal
\* event of a job on, the record of that job has the status, the result and
\* the error that the payload carries; and the step that removes the temp
\* file of a job finds the record terminal and the delivery of its strategy
\* dispatched.
StatusThenDeliveryThenCleanup ==
    /\ [](\A j \in DOMAIN _jobStatuses :
            /\ \A i \in 1..Len(posts[j]) :
                  /\ getJobStatus(j).status = posts[j][i].status
                  /\ JsonResult(getJobStatus(j).result) = posts[j][i].result
                  /\ getJobStatus(j).error = posts[j][i].error
                  /\ posts[j][i].jobId = j
            /\ j \in DOMAIN _progressStreams =>
                  \A i \in TerminalEventsOf(j) :
                      /\ Terminal(j)
                      /\ _progressStreams[j].log[i] = TerminalEvent(j))
    /\ [][ \A j \in DOMAIN tasks :
             (j \in tempFiles /\ j \notin tempFiles') =>
                 /\ Terminal(j)
                 /\ (tasks[j].returnStrategy = "sse" /\ tasks[j].progressSubject) =>
                        TerminalEventsOf(j) # {}
                 /\ (tasks[j].returnStrategy = "webhook" /\ tasks[j].webhookUrl # "") =>
                        Len(posts[j]) = 1 ]_vars

\* the POST of a completed job with words has been issued, the record shows
\* the result it carries and the temp file is still there
PostIssuedBeforeCleanup ==
    \E j \in DOMAIN tasks :
        /\ tasks[j].pc = "webhook"
        /\ j \in tempFiles
        /\ Len(posts[j]) = 1
        /\ posts[j][1].status = "completed"
        /\ _jobStatuses[j].result.words # <<>>
        /\ posts[j][1].result = JsonResult(_jobStatuses[j].result)

\* C25: the step in which a submission is answered with a job id leaves the
\* record of that job with status processing and no result, the busy flag
\* held and, for the push strategy (named or by default), a fresh channel
\* registered; the task of the job waits for the write of the temp file, so
\* no file is written, no adapter has settled and nothing is delivered.
AcceptedSubmissionReturnsAtOnce ==
    [][ request'.response = "Accepted" =>
          LET id == request'.jobId
          IN  /\ id \in DOMAIN _jobStatuses'
              /\ _jobStatuses'[id].status = "processing"
              /\ _jobStatuses'[id].jobId = id
              /\ _jobStatuses'[id].result = UndefinedResult
              /\ _processing'
              /\ request'.returnStrategy \in {"sse", Undefined} =>
                    /\ id \in DOMAIN _progressStreams'
                    /\ _progressStreams'[id] = NewSubject
              /\ tasks'[id].pc = "write"
              /\ id \notin tempFiles'
              /\ ~tasks'[id].textSettled /\ ~tasks'[id].codeSettled
              /\ posts'[id] = <<>> ]_vars

\* a submission without a strategy has just been answered with the id of the
\* second job, while the first job is completed
SecondPushJobJustAdmitted ==
    /\ request.response = "Accepted"
    /\ request.returnStrategy = Undefined
    /\ request.jobId = 2
    /\ _jobStatuses[1].status = "completed"
    /\ _jobStatuses[2].status = "processing"
    /\ 2 \in DOMAIN _progressStreams
    /\ tasks[2].pc = "write"

\* the submissions of the valid image without a strategy tag or with one that
\* is none of sse, webhook and polling
UnknownStrategySubmissions(urls) ==
    { s \in Submissions(urls) :
        s.image = ValidImage /\ s.options.returnStrategy \notin ValidStrategies }

\* C27: a submission whose strategy tag is missing or unrecognised is
\* rejected through either endpoint, and leaves the job table, the channel
\* registry and the busy flag unchanged.
UnknownStrategyRejected ==
    [][ \A s \in UnknownStrategySubmissions(WebhookUrls)
                 \cup UnknownStrategySubmissions(WebhookPaths) :
          Submit(s) =>
              /\ request'.response # "Accepted"
              /\ UNCHANGED << _jobStatuses, _progressStreams, _processing >> ]_vars

\* the POSTs issued for job j are one POST, carrying the id of the job and
\* the terminal status, result and error of its record
OnePostOfRecord(j) ==
    /\ Len(posts[j]) = 1
    /\ posts[j][1].jobId = j
    /\ posts[j][1].url = << tasks[j].webhookUrl, "/", j >>
    /\ posts[j][1].status = _jobStatuses[j].status
    /\ posts[j][1].result = JsonResult(_jobStatuses[j].result)
    /\ posts[j][1].error = _jobStatuses[j].error

\* C26: no POST is issued for a job before its record is terminal; from then
\* on exactly one POST has been issued for a job of the webhook strategy,
\* carrying its id and its terminal status with the result or the error, and
\* none for a job of another strategy; no POST is added later.
OnePostPerWebhookJob ==
    /\ [](\A j \in DOMAIN tasks :
            tasks[j].pc # "done" =>
                IF tasks[j].returnStrategy = "webhook" /\ Terminal(j)
                THEN OnePostOfRecord(j)
                ELSE posts[j] = <<>>)
    /\ [][ \A j \in DOMAIN _jobStatuses : Terminal(j) => posts'[j] = posts[j] ]_vars

\* the same for the webhook jobs that were given a target
OnePostPerWebhookJobWithTarget ==
    /\ [](\A j \in DOMAIN tasks :
            tasks[j].pc # "done" =>
                IF tasks[j].returnStrategy = "webhook" /\ tasks[j].webhookUrl # "" /\ Terminal(j)
                THEN OnePostOfRecord(j)
                ELSE posts[j] = <<>>)
    /\ [][ \A j \in DOMAIN _jobStatuses : Terminal(j) => posts'[j] = posts[j] ]_vars

\* the step writes something of job k: its record, its push channel, its temp
\* file or the POSTs issued for it
Written(k) ==
    \/ _jobStatuses'[k] # _jobStatuses[k]
    \/ k \in DOMAIN _progressStreams /\ _progressStreams'[k] # _progressStreams[k]
    \/ (k \in tempFiles') # (k \in tempFiles)
    \/ posts'[k] # posts[k]

\* the step is a step of the background task of job j: the task moves on
TaskMoves(j) == j \in DOMAIN tasks /\ nanoidCalls' = nanoidCalls /\ tasks'[j] # tasks[j]

\* C28: a step of the background task of a job leaves the record (status,
\* result, error, completedAt), the push channel, the temp file, the POSTs and
\* the task of every other job as they were, and what is written of a job is
\* written by a step of its own task; this holds of the steps in which a job
\* completes or fails.
TaskWritesOwnJobOnly ==
    [][ \A j \in DOMAIN tasks :
          /\ TaskMoves(j) =>
                \A k \in DOMAIN tasks \ {j} : ~Written(k) /\ tasks'[k] = tasks[k]
          /\ Written(j) => TaskMoves(j) ]_vars

\* the second job has completed or failed while the first, admitted before it,
\* is still waiting for its code adapter with its record processing
SecondJobEndedDuringFirst ==
    /\ {1, 2} \subseteq DOMAIN tasks
    /\ Terminal(2)
    /\ tasks[2].pc \in {"webhook", "unlink"}
    /\ _jobStatuses[1].status = "processing"
    /\ tasks[1].pc = "adapters"
    /\ tasks[1].textSettled
    /\ 1 \in tempFiles

\* the text has a character of the descender set as it is written
HasDescenderChar(text) == \E i \in 1..Len(text) : text[i] \in DESCENDER_CHARS

\* the two baselines of a box
RaisedBaseline(top, height) == Add(top, Mul(height, Sub(Num(1, 1), DESCENDER_FACTOR)))

BottomBaseline(top, height) == Add(top, height)

\* C29: the baseline of a text is top + height*(1 - 0.23) exactly when the
\* text contains a character of the descender set, and top + height otherwise.
BaselineByDescenderSet ==
    call.fn = "calculateBaseline" =>
        call.result = IF HasDescenderChar(call.input.text)
                      THEN RaisedBaseline(call.input.top, call.input.height)
                      ELSE BottomBaseline(call.input.top, call.input.height)

\* the same for the texts that toLowerCase leaves as they are
BaselineByDescenderSetOfLowercaseText ==
    ( /\ call.fn = "calculateBaseline"
      /\ \A i \in 1..Len(call.input.text) : toLowerCase(call.input.text[i]) = call.input.text[i] ) =>
        call.result = IF HasDescenderChar(call.input.text)
                      THEN RaisedBaseline(call.input.top, call.input.height)
                      ELSE BottomBaseline(call.input.top, call.input.height)

\* the baselines of two words differ by at most 0.0025
WithinTolerance(a, b) == Leq(Abs(Sub(a.baseline, b.baseline)), BASELINE_TOLERANCE)

\* the places (group, index) at which a word of the engine's report is grouped
PlacesOf(word) ==
    { p \in (1..Len(EngineGroups)) \X (1..Len(EngineWords)) :
        p[2] <= Len(EngineGroups[p[1]]) /\ EngineGroups[p[1]][p[2]] = word }

\* C30: every word is in exactly one line-group; the groups are in the order
\* they were created and their members in the order the engine reported them;
\* the first member of a group is within 0.0025 of the first member of no
\* earlier group, and every other member is within 0.0025 of the first member
\* of its group and of the first member of no earlier group.
FirstFitAgainstFirstMembers ==
    Normalized =>
        /\ \A k \in 1..Len(EngineWords) : Cardinality(PlacesOf(EngineWords[k])) = 1
        /\ \A g \in 1..Len(EngineGroups) :
              /\ EngineGroups[g] # <<>>
              /\ \A i \in 2..Len(EngineGroups[g]) :
                    /\ EnginePos(EngineGroups[g][i - 1]) < EnginePos(EngineGroups[g][i])
                    /\ WithinTolerance(EngineGroups[g][i], EngineGroups[g][1])
              /\ \A h \in 1..(g - 1) :
                    /\ EnginePos(EngineGroups[h][1]) < EnginePos(EngineGroups[g][1])
                    /\ \A i \in 1..Len(EngineGroups[g]) :
                          ~WithinTolerance(EngineGroups[g][i], EngineGroups[h][1])

\* a group of three words whose second and third member are further than
\* 0.0025 from one another
GroupWithDistantMembers ==
    /\ Normalized
    /\ Len(EngineGroups) = 1
    /\ Len(EngineGroups[1]) = 3
    /\ ~WithinTolerance(EngineGroups[1][2], EngineGroups[1][3])

\* the level-1 page row of the file: its first data row of level 1
PageRowOf(tsvContent) ==
    LET dataLines == Tail(tsvContent)
    IN  dataLines[CHOOSE i \in 1..Len(dataLines) :
                      /\ dataLines[i][1] = 1
                      /\ \A h \in 1..(i - 1) : dataLines[h][1] # 1]

\* the word made of the k-th level-5 row with text has the geometry of the row
\* divided by the width and height the page row reports, and its confidence
\* divided by 100
DividedByReportedPageSize ==
    LET rows  == SelectSeq(Tail(call.input), HasLevel5Text)
        page  == PageRowOf(call.input)
        words == call.result.value
    IN  \A k \in 1..Len(rows) : \A i \in 1..Len(words) :
            words[i].data.id = nanoid(call.seed, k) =>
                /\ words[i].left = Div(Num(rows[k][7], 1), Num(page[9], 1))
                /\ words[i].width = Div(Num(rows[k][9], 1), Num(page[9], 1))
                /\ words[i].top = Div(Num(rows[k][8], 1), Num(page[10], 1))
                /\ words[i].height = Div(Num(rows[k][10], 1), Num(page[10], 1))
                /\ words[i].data.confidence = Div(Num(rows[k][11], 1), Num(100, 1))

\* page (0,0,1000,1000) and the word Hello at (100,50,80,20) give left 0.1,
\* top 0.05, width 0.08, height 0.02, baseline 0.07
ScenarioA ==
    call.input = << TsvHeader, PageRow(1000, 1000),
                    WordRow(100, 50, 80, 20, 96, <<"H", "e", "l", "l", "o">>) >> =>
        /\ Len(call.result.value) = 1
        /\ LET word == call.result.value[1]
           IN  /\ word.left = Norm(1, 10) /\ word.top = Norm(5, 100)
               /\ word.width = Norm(8, 100) /\ word.height = Norm(2, 100)
               /\ word.baseline = Norm(7, 100)
               /\ word.data.text = <<"H", "e", "l", "l", "o">>

\* C31: for every file whose page row reports a width and a height, every
\* word has the left and width of its row divided by the page width, the top
\* and height divided by the page height and the confidence divided by 100;
\* page 1000x1000 with Hello at (100,50,80,20) gives 0.1, 0.05, 0.08, 0.02
\* and baseline 0.07.
NormalizedByPageRow ==
    (Normalized /\ Len(PageRowOf(call.input)) >= 10) =>
        DividedByReportedPageSize /\ ScenarioA

\* the same for the files whose page row has exactly 12 columns
NormalizedByPageRowOf12Columns ==
    (Normalized /\ Len(PageRowOf(call.input)) = 12) =>
        DividedByReportedPageSize /\ ScenarioA

\* 0 <= x <= 1
InUnitInterval(x) == Leq(Num(0, 1), x) /\ Leq(x, Num(1, 1))

\* C32: every word the normalizer returns has left, top, width, height and
\* confidence within [0,1], whatever the page row of the file.
WordsWithinUnitInterval ==
    Normalized =>
        \A i \in 1..Len(call.result.value) :
            LET word == call.result.value[i]
            IN  /\ InUnitInterval(word.left) /\ InUnitInterval(word.top)
                /\ InUnitInterval(word.width) /\ InUnitInterval(word.height)
                /\ InUnitInterval(word.data.confidence)

\* the same for the files whose page row reports a positive width and height
WordsWithinUnitIntervalOfSizedPage ==
    (Normalized /\ SizedPage(call.input)) => WordsWithinUnitInterval

\* the engine could not be started or exited with a code other than 0
EngineFailed(run) == run.start = "error" \/ run.code # 0

\* the engine exited cleanly and left an empty file or a file of one line
CleanExitWithoutData(run) ==
    /\ run.start = "ok" /\ run.code = 0 /\ run.tsv # "missing"
    /\ (TsvFile(run.tsv).size = 0 \/ Len(TsvFile(run.tsv).lines) < 2)

\* C33: the Recognition adapter raises a failure when the engine could not be
\* started or exited non-zero, whatever file it left, and returns an empty
\* word list without failure after a clean exit with an empty output file or
\* one of fewer than two lines.
EngineFailureRaisedEmptyOutputAccepted ==
    call.fn = "TesseractService.processImage" =>
        /\ EngineFailed(call.input) => call.result.threw
        /\ CleanExitWithoutData(call.input) =>
              ~call.result.threw /\ call.result.value = <<>>

\* the adapter returned no words for a file holding the header line only
NoWordsOfHeaderLine ==
    /\ call.fn = "TesseractService.processImage"
    /\ call.input = [start |-> "ok", code |-> 0, tsv |-> "headerOnly"]
    /\ call.result = Fulfilled(<<>>)

\* C34: no step removes an id from the job table, and an id for which
\* getJobStatus has answered is answered for in the next state as well, hence
\* in every later state.
JobRecordsAreKept ==
    [][ /\ DOMAIN _jobStatuses \subseteq DOMAIN _jobStatuses'
        /\ \A jobId \in AskedIds :
              getJobStatus(jobId) # NotFound => getJobStatus(jobId)' # NotFound ]_vars

\* the record of an ended job answers while a later job is being processed
EndedJobStillAnswered ==
    /\ {1, 2} \subseteq DOMAIN tasks
    /\ tasks[1].pc = "done"
    /\ getJobStatus(1) # NotFound
    /\ Terminal(1)
    /\ _jobStatuses[2].status = "processing"

\* C35: whenever the record of some job is processing the busy flag is set,
\* and no step clears the flag while the record of a job is still processing
\* after it.
ProcessingImpliesBusy ==
    /\ [](Processing # {} => isProcessing)
    /\ [][ (_processing /\ ~_processing') =>
              \A j \in DOMAIN _jobStatuses' : _jobStatuses'[j].status # "processing" ]_vars

\* the jobs whose task has not released the busy flag yet
Unreleased == { j \in DOMAIN tasks : tasks[j].pc \notin {"unlink", "done"} }

\* C36: the flag is clear when an invocation of processImage acquires it, so
\* at most one job holds it; of two requests that arrived while the service
\* was idle with a valid image, a recognised strategy and a target where one
\* is needed, and whose handlers have ended before any job released the flag,
\* exactly one is admitted and the other is answered 503 Busy.
OneOfTwoRequestsAdmitted ==
    /\ \A h \in DOMAIN handlers : ~handlers[h].busyAtStart
    /\ Cardinality(Unreleased) <= 1
    /\ ( /\ DOMAIN handlers = Requests
         /\ \A h \in Requests : Finished(h)
         /\ \A h \in Requests :
               StrategyResponse(handlers[h].options.returnStrategy,
                                handlers[h].options.webhookUrl) = "Accepted"
         /\ Unreleased = DOMAIN tasks ) =>
           \E h \in Requests : \A g \in Requests \ {h} :
               /\ handlers[h].response = "Accepted"
               /\ handlers[g].response = "ServiceUnavailable"

\* two requests arrived before either handler ran; the second was answered
\* Busy while the job of the first waits for its temp file
SecondOfTwoArrivalsBusy ==
    /\ DOMAIN handlers = Requests
    /\ handlers[1].response = "Accepted"
    /\ handlers[2].response = "ServiceUnavailable"
    /\ nanoidCalls = 1
    /\ tasks[1].pc = "write"

\* C37: the record of a processing job has no result, no error and no
\* completedAt; the record of a completed job has a result and a completedAt
\* and no error; the record of a failed job has an error and a completedAt
\* and no result.
FieldsAgreeWithStatus ==
    \A j \in DOMAIN _jobStatuses :
        LET jobStatus == _jobStatuses[j]
        IN  /\ jobStatus.status \in {"processing", "completed", "failed"}
            /\ jobStatus.status = "processing" =>
                  /\ jobStatus.result = UndefinedResult
                  /\ jobStatus.error = Undefined
                  /\ jobStatus.completedAt = Undefined
            /\ jobStatus.status = "completed" =>
                  /\ jobStatus.result # UndefinedResult
                  /\ jobStatus.error = Undefined
                  /\ jobStatus.completedAt = Instant(j, "completed")
            /\ jobStatus.status = "failed" =>
                  /\ jobStatus.result = UndefinedResult
                  /\ jobStatus.error # Undefined
                  /\ jobStatus.completedAt = Instant(j, "failed")

\* a failed webhook job whose target answered with an error status, beside a
\* completed job
FailedAndCompletedRecords ==
    /\ {1, 2} \subseteq DOMAIN tasks
    /\ _jobStatuses[1].status = "completed"
    /\ posts[1] # <<>>
    /\ tasks[1].pc = "unlink"
    /\ tasks[1].webhookResponse = "non2xx"
    /\ _jobStatuses[2].status = "failed"

\* C38: a registered push channel stays registered; a subscription made
\* before the terminal event has received nothing while the job is
\* processing, and the terminal event followed by the close once the job is
\* terminal; a subscription made after the terminal event has received the
\* close and nothing else.
ChannelKeptWithoutReplay ==
    /\ [][ \A j \in DOMAIN _progressStreams :
              /\ j \in DOMAIN _progressStreams'
              /\ getProgressStream(j)' # NotFound ]_vars
    /\ [](\A j \in DOMAIN _progressStreams :
            \A i \in 1..Len(_progressStreams[j].observers) :
                LET observer == _progressStreams[j].observers[i]
                IN  IF observer.subscribedAt = 0
                    THEN observer.received =
                            IF Terminal(j)
                            THEN << TerminalEvent(j), [type |-> "close"] >>
                            ELSE <<>>
                    ELSE /\ Terminal(j)
                         /\ observer.received = << [type |-> "close"] >>)

\* one caller subscribed before the job failed and one after its task ended
SubscribedBeforeAndAfter ==
    /\ 1 \in DOMAIN _progressStreams
    /\ _jobStatuses[1].status = "failed"
    /\ tasks[1].pc = "done"
    /\ Len(_progressStreams[1].observers) = 2
    /\ _progressStreams[1].observers[1].subscribedAt = 0
    /\ Len(_progressStreams[1].observers[1].received) = 2
    /\ _progressStreams[1].observers[2].subscribedAt = 2

\* sub is seq with some of its members left out: same members, same order
RECURSIVE IsSubsequence(_, _)
IsSubsequence(sub, seq) ==
    IF sub = <<>> THEN TRUE
    ELSE IF seq = <<>> THEN FALSE
    ELSE IF Head(sub) = Head(seq) THEN IsSubsequence(Tail(sub), Tail(seq))
    ELSE IsSubsequence(sub, Tail(seq))

\* C39: the words of a completed job's result are the words the normalizer
\* returned with some of them left out, in the same order and with the same
\* fields; its codes are the output of the Code Detection adapter as it is;
\* and without codes the words are all the words the normalizer returned.
ResolverOnlyRemovesWords ==
    \A j \in DOMAIN tasks :
        (Joined(j) /\ _jobStatuses[j].status = "completed") =>
            LET words  == tasks[j].text.value
                result == _jobStatuses[j].result
            IN  /\ IsSubsequence(result.words, words)
                /\ result.codes = tasks[j].codes.value
                /\ ~CodeReaderProcessImage(tasks[j].codeRun, j).threw =>
                      result.codes = CodeReaderProcessImage(tasks[j].codeRun, j).value
                /\ ~TesseractProcessImage(tasks[j].textRun, j).threw =>
                      words = TesseractProcessImage(tasks[j].textRun, j).value
                /\ result.codes = <<>> => result.words = words

\* of three words the one inside the QR code was removed, and the two others
\* are in the result in the order the normalizer gave them
WordInsideCodeRemoved ==
    \E j \in DOMAIN tasks :
        /\ Joined(j)
        /\ _jobStatuses[j].status = "completed"
        /\ Len(tasks[j].text.value) = 3
        /\ Len(_jobStatuses[j].result.codes) = 1
        /\ Len(_jobStatuses[j].result.words) = 2

====
